---- MODULE Spec2Model ----
(***************************************************************************)
(* Model of the agent SDK's resilient transport (sdk/src/ws.ts,            *)
(* createAgentConnection) and of the session orchestrator that drives it   *)
(* (sdk/src/session.ts, BuildSession).                                     *)
(*                                                                         *)
(* JavaScript runs every handler to completion on one thread, so each      *)
(* action below is one whole handler: a socket event listener, a timer     *)
(* callback or a public method, together with everything it calls          *)
(* synchronously (emit -> session listeners -> send -> ...).               *)
(*                                                                         *)
(* The handlers are written as operators over a record w holding the       *)
(* whole program state; an action reads the variables into such a record   *)
(* (Cur), applies the handler and commits the result (Commit).             *)
(***************************************************************************)
EXTENDS Integers, Sequences, FiniteSets, TLC

(***************************************************************************)
(* Bounds of the model.                                                    *)
(***************************************************************************)
\* calls of the socket factory over the connection's lifetime; each call
\* takes the next socket number, whether it returns a socket or throws
MaxSockets == 2
\* capacity of the pending-send queue (ws.ts:41 sets 1000; scaled down so
\* that the caller's sends overflow it)
maxPendingSends == 2
\* waits outstanding at one time
MaxWaiters == 1
\* calls of the socket factory in the specification that follows the retry
\* budget (SpecRetry)
MaxRetrySockets == 5
\* the retry limit of that specification (options.retry.maxRetries)
RetryLimit == 2
\* payloads delivered in the specification of the messages (SpecMessages)
MaxDeliveries == 2
\* file_generated messages counted by one generation (SpecReducer)
MaxFiles == 2
\* files in the workspace whose tree is built (SpecTree)
MaxPaths == 4

NULL == 0
\* WS_RETRY_DEFAULTS.maxRetries (ws.ts:23) is Infinity: a number above every
\* value reconnectAttempts can take within the bounds, so that
\* reconnectAttempts >= Infinity is false as in the code
Infinity == 99

Sockets ==
    1..(IF MaxRetrySockets > MaxSockets THEN MaxRetrySockets ELSE MaxSockets)

\* the command methods of BuildSession the model's caller uses, and the
\* client message each one sends (session.ts:176-218)
CommandType(method) ==
    CASE method = "startGeneration" -> "generate_all"
      [] method = "stop" -> "stop_generation"
      [] method = "followUp" -> "user_suggestion"
      [] method = "requestConversationState" -> "get_conversation_state"
      [] method = "deployPreview" -> "preview"
      [] method = "deployCloudflare" -> "deploy"
      [] method = "resume" -> "resume_generation"
      [] method = "clearConversation" -> "clear_conversation"

AllMethods ==
    {"startGeneration", "stop", "followUp", "requestConversationState",
     "deployPreview", "deployCloudflare", "resume", "clearConversation"}

\* the methods the caller of Spec draws from
Methods == {"startGeneration", "stop"}

\* the waits of BuildSession (session.ts:101-108, 232-330)
WaitKinds ==
    {"wait.generationStarted", "wait.generationComplete", "wait.phase",
     "wait.deployable", "wait.previewDeployed", "wait.cloudflareDeployed",
     "waitForMessageType", "waitUntilReady"}

(***************************************************************************)
(* Server payloads.                                                        *)
(***************************************************************************)
\* a field that is not there (undefined in the source)
Absent == "undefined"

PhaseTypes ==
    {"phase_generating", "phase_generated", "phase_implementing",
     "phase_implemented", "phase_validating", "phase_validated"}

FileTypes ==
    {"file_chunk_generated", "file_generated", "file_generating",
     "file_regenerating", "file_regenerated"}

GenerationTypes ==
    {"generation_started", "generation_complete", "generation_stopped",
     "generation_resumed"}

PreviewTypes ==
    {"deployment_completed", "deployment_started", "deployment_failed"}

CloudflareTypes ==
    {"cloudflare_deployment_started", "cloudflare_deployment_completed",
     "cloudflare_deployment_error"}

ConversationTypes == {"conversation_response", "conversation_state"}

\* the types the switch of onMessage (ws.ts:151-195) names
SugarTypes ==
    {"agent_connected", "error"} \cup ConversationTypes \cup PhaseTypes
        \cup FileTypes \cup GenerationTypes \cup PreviewTypes
        \cup CloudflareTypes

\* types no switch of the sdk names: a type of a later protocol version, and
\* a type that starts with { and ends with } without being JSON, which
\* normalizeServerPayload leaves as it is (ws.ts:121-125)
UnknownTypes == {"future_feature", "{oops}"}

\* a typed server message: its type, the one field of it the state store
\* reads (error, previewURL, previewUrl, deploymentUrl, filePath,
\* totalFiles, phase.name, state) and the files map of the agent state it
\* carries, by name (Absent when it carries none); the fields the sdk copies
\* beside them (instanceId, tunnelURL, workersUrl, phase.description) go the
\* same way and are left out
Message(type, arg) == [type |-> type, arg |-> arg, files |-> Absent]

\* a message that carries agent state with the files map named files
Snapshot(type, arg, files) == [type |-> type, arg |-> arg, files |-> files]

\* no message: what normalizeServerPayload returns as null
NoMsg == Message(Absent, Absent)

\* the values that field takes in the model, for each type
Args(type) ==
    CASE type = "error" -> {"boom", Absent}
      [] type \in {"deployment_failed", "cloudflare_deployment_error"} -> {"boom"}
      [] type \in {"deployment_completed", "cloudflare_deployment_completed"}
            -> {"https://x"}
      [] type \in {"generation_complete", "agent_connected"}
            -> {"https://x", Absent}
      [] type \in FileTypes -> {"a.txt"}
      [] type = "generation_started" -> {"3"}
      [] type \in PhaseTypes -> {"plan"}
      [] type = "conversation_state" -> {"conv"}
      [] type = "cf_agent_state" -> {Absent}
      [] OTHER -> {Absent}

TypedMessages ==
    UNION {{Message(t, a) : a \in Args(t)} :
            t \in SugarTypes \cup UnknownTypes \cup {"cf_agent_state"}}
        \cup {Snapshot("cf_agent_state", Absent, "files"),
              Snapshot("agent_connected", Absent, "files")}

\* what a socket delivers.  shape: text that is not JSON, a JSON value that
\* is not an object, or an object; msg: the object's string type (Absent
\* when it has none) and field; stateAt: where the object is shaped like
\* agent state (string behaviorType and projectType); wrap: how many times
\* the object is encoded as JSON text in the type field of an enclosing
\* object
Raw(shape, msg, stateAt, wrap) ==
    [shape |-> shape, msg |-> msg, stateAt |-> stateAt, wrap |-> wrap]

NotJson == Raw("not_json", NoMsg, "none", 0)

\* no payload: the handler was not a socket's message listener
NoPayload == Raw("none", NoMsg, "none", 0)

Json(msg) == Raw("object", msg, "none", 0)

\* payloads without a string type
UntypedPayloads ==
    {Raw("scalar", NoMsg, "none", 0), Raw("object", NoMsg, "none", 0)}

\* agent state without the { type } envelope, with or without a files map
StatePayloads ==
    {Raw("object", Snapshot(Absent, Absent, f), at, 0) :
        f \in {"files", Absent}, at \in {"top", "nested"}}

\* an object encoded into the type field of another, once or twice
WrappedPayloads ==
    {Raw("object", Message("phase_generating", "plan"), "none", 1),
     Raw("object", Message("phase_generating", "plan"), "none", 2),
     Raw("object", NoMsg, "none", 1),
     Raw("object", NoMsg, "none", 2),
     Raw("object", Snapshot(Absent, Absent, "files"), "top", 1)}

\* every payload of the model
AllPayloads ==
    {NotJson} \cup {Json(m) : m \in TypedMessages} \cup UntypedPayloads
        \cup StatePayloads \cup WrappedPayloads

\* payloads a socket may deliver where the messages are not the subject:
\* text that is not JSON, and the server's greeting
Payloads == {NotJson, Json(Message("agent_connected", Absent))}

\* ws.ts:19-24 (the delays play no part: the timer fires at any later time)
WS_RETRY_DEFAULTS == [enabled |-> TRUE, maxRetries |-> Infinity]

\* the retry options connect() is given in the model, as normalizeRetryConfig
\* (ws.ts:29) returns them: retry disabled, one retry, the defaults
RetryOptions ==
    {[enabled |-> FALSE, maxRetries |-> Infinity],
     [enabled |-> TRUE, maxRetries |-> 1],
     WS_RETRY_DEFAULTS}

VARIABLES
    connection,         \* BuildSession.connection: NULL or the connection (1)
    connState,          \* SessionStateStore: state.connection
    listeners,          \* how many times connect() has registered the session's
                        \* listeners on the connection (session.ts:148-171)
    created,            \* createAgentConnection has run
    credentials,        \* connect(): credentials are configured
    autoRequest,        \* connect(): shouldRequestConversationState
    retryEnabled,       \* retryCfg.enabled
    maxRetries,         \* retryCfg.maxRetries
    ws,                 \* ws.ts: the current socket, NULL or a socket id
    isOpen,             \* ws.ts: isOpen
    closedByUser,       \* ws.ts: closedByUser
    reconnectAttempts,  \* ws.ts: reconnectAttempts
    reconnectTimer,     \* ws.ts: a timer handle is held (TRUE) or null
    pendingSends,       \* ws.ts: the queue of serialized messages
    timers,             \* host: reconnect timers scheduled and not yet fired or cleared
    nSock,              \* host: calls of the socket factory so far
    sockState,          \* host: each socket's ready state
    opened,             \* host: the sockets that have reported open
    wire,               \* host: the writes of the last handler, in order
    waiters,            \* the listeners of the waits on ws:message, by kind of wait
    waitIds,            \* the wait each of those listeners belongs to
    waitTimers,         \* host: the waits whose timeout timer is pending
    promises,           \* the waits whose promise is pending
    events,             \* events the connection emitted during the last handler
    sinceOpen,          \* history: factory calls by the timer since the last open
    state,              \* SessionStateStore: the fields of state beside connection
    stateRef,           \* which object state is: 0, the one it was before the
                        \* last handler; n, the n-th made since; InitialRef
    changes,            \* the change events the store emitted during the last handler
    written,            \* state objects the last handler wrote to after making them
    seen,               \* what the listeners of change and the resolved waits
                        \* were shown during the last handler, in order
    workspace,          \* WorkspaceStore: the files, as records of path and content
    workspaceWas,       \* history: the files before the last handler
    tree,               \* what the last handler returned, when it was files.tree()
    settled,            \* the waits the last handler settled, and how
    received,           \* host: the payload the last handler was given, if any
    delivered,          \* host: payloads delivered where deliveries are counted
    replay,             \* a second SessionStateStore, fed by ReplayApply and Replay
    replayPhase,        \* how the second store stands to the session's (SpecReducer)
    behaviorType,       \* BuildSession.behaviorType (readonly)
    last                \* the last handler that ran, and whether it threw

vars == <<connection, connState, listeners, created, credentials, autoRequest,
          retryEnabled, maxRetries, ws, isOpen, closedByUser,
          reconnectAttempts, reconnectTimer, pendingSends, timers, nSock,
          sockState, opened, wire, waiters, waitIds, waitTimers, promises,
          events, sinceOpen,
          state, stateRef, changes, written, seen, workspace, workspaceWas, tree, settled, received, delivered, replay,
          replayPhase, behaviorType, last>>

Cur ==
    [connection |-> connection, connState |-> connState,
     listeners |-> listeners, created |-> created,
     credentials |-> credentials, autoRequest |-> autoRequest,
     retryEnabled |-> retryEnabled, maxRetries |-> maxRetries,
     ws |-> ws, isOpen |-> isOpen, closedByUser |-> closedByUser,
     reconnectAttempts |-> reconnectAttempts,
     reconnectTimer |-> reconnectTimer, pendingSends |-> pendingSends,
     timers |-> timers, nSock |-> nSock, sockState |-> sockState,
     opened |-> opened, wire |-> <<>>, waiters |-> waiters,
     waitIds |-> waitIds, waitTimers |-> waitTimers, promises |-> promises,
     events |-> <<>>, sinceOpen |-> sinceOpen, state |-> state,
     stateRef |-> 0, changes |-> <<>>, written |-> {}, seen |-> <<>>,
     workspace |-> workspace, workspaceWas |-> workspace, tree |-> <<>>,
     settled |-> <<>>, received |-> NoPayload,
     delivered |-> delivered,
     replay |-> replay, replayPhase |-> replayPhase,
     behaviorType |-> behaviorType, threw |-> FALSE]

Commit(w, op, arg) ==
    /\ connection' = w.connection
    /\ connState' = w.connState
    /\ listeners' = w.listeners
    /\ created' = w.created
    /\ credentials' = w.credentials
    /\ autoRequest' = w.autoRequest
    /\ retryEnabled' = w.retryEnabled
    /\ maxRetries' = w.maxRetries
    /\ ws' = w.ws
    /\ isOpen' = w.isOpen
    /\ closedByUser' = w.closedByUser
    /\ reconnectAttempts' = w.reconnectAttempts
    /\ reconnectTimer' = w.reconnectTimer
    /\ pendingSends' = w.pendingSends
    /\ timers' = w.timers
    /\ nSock' = w.nSock
    /\ sockState' = w.sockState
    /\ opened' = w.opened
    /\ wire' = w.wire
    /\ waiters' = w.waiters
    /\ waitIds' = w.waitIds
    /\ waitTimers' = w.waitTimers
    /\ promises' = w.promises
    /\ events' = w.events
    /\ sinceOpen' = w.sinceOpen
    /\ state' = w.state
    /\ stateRef' = w.stateRef
    /\ changes' = w.changes
    /\ written' = w.written
    /\ seen' = w.seen
    /\ workspace' = w.workspace
    /\ workspaceWas' = w.workspaceWas
    /\ tree' = w.tree
    /\ settled' = w.settled
    /\ received' = w.received
    /\ delivered' = w.delivered
    /\ replay' = w.replay
    /\ replayPhase' = w.replayPhase
    /\ behaviorType' = w.behaviorType
    /\ last' = [op |-> op, arg |-> arg, threw |-> w.threw]

\* a serialized client message is modelled by its type
Msg(type) == type

\* an emitted event: its name, a detail string, a number (the attempt of
\* ws:reconnecting, 0 otherwise) and no message
Ev(name, info, n) == [name |-> name, info |-> info, n |-> n, msg |-> NoMsg]

\* an event whose payload is the typed message m
EvMsg(name, m) == [name |-> name, info |-> m.type, n |-> 0, msg |-> m]

\* ws:raw for the raw value raw (n: how deep raw is still wrapped)
EvRaw(raw) == [name |-> "ws:raw", info |-> raw.shape, n |-> raw.wrap, msg |-> raw.msg]

(***************************************************************************)
(* SessionStateStore (state.ts; its text is in client.ts:160-423).         *)
(***************************************************************************)
\* client.ts:215-221; the optional fields are there from the start, Absent
INITIAL_STATE ==
    [connection |-> "disconnected",
     generation |-> [status |-> "idle"],
     phase |-> [status |-> "idle"],
     preview |-> [status |-> "idle"],
     cloudflare |-> [status |-> "idle"],
     currentFile |-> Absent,
     previewUrl |-> Absent,
     lastError |-> Absent,
     conversationState |-> Absent,
     lastConversationResponse |-> Absent]

\* the count of the files taken for 0 whatever the state before
filesGeneratedOf_zero(prev) == 0

\* 'filesGenerated' in prev ? prev.filesGenerated : 0 (client.ts:271)
filesGeneratedOf(prev) ==
    IF "filesGenerated" \in DOMAIN prev THEN prev.filesGenerated ELSE 0

\* client.ts:223-229 with the status of the phase
phaseOf(status, msg) == [status |-> status, name |-> msg.arg]

\* the status a phase_<x> message sets (client.ts:316-345)
PhaseStatus(type) ==
    CASE type = "phase_generating" -> "generating"
      [] type = "phase_generated" -> "generated"
      [] type = "phase_implementing" -> "implementing"
      [] type = "phase_implemented" -> "implemented"
      [] type = "phase_validating" -> "validating"
      [] type = "phase_validated" -> "validated"

\* generation_started that keeps the count of the files
generationStarted_keepsCount(st, msg) ==
    [st EXCEPT !.generation = [status |-> "running",
                               totalFiles |-> msg.arg,
                               filesGenerated |-> filesGeneratedOf(st.generation)],
               !.currentFile = Absent]

\* client.ts:259-266
generationStarted(st, msg) ==
    [st EXCEPT !.generation = [status |-> "running",
                               totalFiles |-> msg.arg,
                               filesGenerated |-> 0],
               !.currentFile = Absent]

\* file_generated that counts in every generation state
fileGenerated_always(st) ==
    [st EXCEPT !.generation = [f \in DOMAIN @ \cup {"filesGenerated"} |->
                                  IF f = "filesGenerated"
                                  THEN filesGeneratedOf(st.generation) + 1
                                  ELSE @[f]],
               !.currentFile = Absent]

\* client.ts:305-314
fileGenerated(st) ==
    IF st.generation.status \in {"running", "stopped"}
    THEN [st EXCEPT !.generation.filesGenerated = @ + 1,
                    !.currentFile = Absent]
    ELSE st

\* file_generating that counts the file as well
fileGenerating_counts(st, msg) ==
    [fileGenerated(st) EXCEPT !.currentFile = msg.arg]

\* client.ts:300-304
fileGenerating(st, msg) == [st EXCEPT !.currentFile = msg.arg]

\* generation_resumed that starts the count again
generationResumed_restarts(st) ==
    [st EXCEPT !.generation = [status |-> "running", filesGenerated |-> 0]]

\* client.ts:292-297
generationResumed(st) ==
    [st EXCEPT !.generation =
                    [status |-> "running",
                     filesGenerated |-> filesGeneratedOf(st.generation)]]

\* client.ts:247-410: the state after msg, from the state st
applyWsMessage(st, msg) ==
    CASE msg.type = "conversation_state" ->
            [st EXCEPT !.conversationState = msg.arg]
      [] msg.type = "conversation_response" ->
            [st EXCEPT !.lastConversationResponse = "response"]
      [] msg.type = "generation_started" -> generationStarted(st, msg)
      [] msg.type = "generation_complete" ->
            [st EXCEPT !.generation =
                            [status |-> "complete",
                             previewURL |-> msg.arg,
                             filesGenerated |-> filesGeneratedOf(st.generation)],
                       !.currentFile = Absent,
                       !.previewUrl = IF msg.arg # Absent THEN msg.arg ELSE @]
      [] msg.type = "generation_stopped" ->
            [st EXCEPT !.generation =
                            [status |-> "stopped",
                             filesGenerated |-> filesGeneratedOf(st.generation)]]
      [] msg.type = "generation_resumed" -> generationResumed(st)
      [] msg.type = "file_generating" -> fileGenerating(st, msg)
      [] msg.type = "file_generated" -> fileGenerated(st)
      [] msg.type \in PhaseTypes ->
            [st EXCEPT !.phase = phaseOf(PhaseStatus(msg.type), msg)]
      [] msg.type = "deployment_started" ->
            [st EXCEPT !.preview = [status |-> "running"]]
      [] msg.type = "deployment_failed" ->
            [st EXCEPT !.preview = [status |-> "failed", error |-> msg.arg]]
      [] msg.type = "deployment_completed" ->
            [st EXCEPT !.previewUrl = msg.arg,
                       !.preview = [status |-> "complete",
                                    previewURL |-> msg.arg]]
      [] msg.type = "cloudflare_deployment_started" ->
            [st EXCEPT !.cloudflare = [status |-> "running"]]
      [] msg.type = "cloudflare_deployment_error" ->
            [st EXCEPT !.cloudflare = [status |-> "failed", error |-> msg.arg]]
      [] msg.type = "cloudflare_deployment_completed" ->
            [st EXCEPT !.cloudflare = [status |-> "complete",
                                       deploymentUrl |-> msg.arg]]
      [] msg.type = "agent_connected" ->
            IF msg.arg # Absent THEN [st EXCEPT !.previewUrl = msg.arg] ELSE st
      [] msg.type = "error" ->
            [st EXCEPT !.lastError = msg.arg]
      [] OTHER -> st

\* clear() that keeps lastError
stateClear_keepsError(st) == [INITIAL_STATE EXCEPT !.lastError = st.lastError]

\* client.ts:419-422
stateClear(st) == INITIAL_STATE

\* the fields of a SessionState beside connection
Fields(st) ==
    [generation |-> st.generation, phase |-> st.phase,
     preview |-> st.preview, cloudflare |-> st.cloudflare,
     currentFile |-> st.currentFile, previewUrl |-> st.previewUrl,
     lastError |-> st.lastError,
     conversationState |-> st.conversationState,
     lastConversationResponse |-> st.lastConversationResponse]

\* client.ts:235-237: the session's state, from the program state w
get(w) ==
    [connection |-> w.connState,
     generation |-> w.state.generation, phase |-> w.state.phase,
     preview |-> w.state.preview, cloudflare |-> w.state.cloudflare,
     currentFile |-> w.state.currentFile, previewUrl |-> w.state.previewUrl,
     lastError |-> w.state.lastError,
     conversationState |-> w.state.conversationState,
     lastConversationResponse |-> w.state.lastConversationResponse]

\* the change event of setState: the objects it names as prev and next
Change(prev, next) == [prev |-> prev, next |-> next]

\* what a listener finds when it is called: the session state and the
\* files of the workspace at that time
Seen(by, st, files) == [by |-> by, state |-> st, workspace |-> files]

\* setState that writes the patch into the object it holds
setState_inPlace(w, st) ==
    [w EXCEPT !.connState = st.connection, !.state = Fields(st),
              !.written = @ \cup {w.stateRef},
              !.changes = Append(@, Change(w.stateRef, w.stateRef)),
              !.seen = Append(@, Seen("change", st, w.workspace))]

\* client.ts:412-417: the patched copy st of the state is a new object,
\* the next one made in this handler; it becomes the state, and change is
\* emitted with the object held before and the new one
setState(w, st) ==
    LET next == Len(w.changes) + 1
    IN  [w EXCEPT !.connState = st.connection, !.state = Fields(st),
                  !.stateRef = next,
                  !.changes = Append(@, Change(w.stateRef, next)),
                  !.seen = Append(@, Seen("change", st, w.workspace))]

\* client.ts:243-245
setConnection(w, c) == setState(w, [get(w) EXCEPT !.connection = c])

\* client.ts:247-410: applyWsMessage calls setState for msg
sets(st, msg) ==
    CASE msg.type = "file_generated" -> fileGenerated(st) # st
      [] msg.type = "agent_connected" -> msg.arg # Absent
      [] OTHER ->
            msg.type \in ConversationTypes \cup GenerationTypes
                            \cup PhaseTypes \cup PreviewTypes
                            \cup CloudflareTypes
                            \cup {"file_generating", "error"}

\* state.applyWsMessage(msg) on the session's store
stateApply(w, msg) ==
    IF sets(get(w), msg) THEN setState(w, applyWsMessage(get(w), msg)) ELSE w

\* INITIAL_STATE (client.ts:215-221) as an object: the one every store
\* starts from and clear() puts back
InitialRef == -1

\* client.ts:419-422 on the session's store
clear(w) ==
    LET st == stateClear(get(w))
    IN  [w EXCEPT !.connState = st.connection, !.state = Fields(st),
                  !.stateRef = InitialRef]

(***************************************************************************)
(* WorkspaceStore (workspace.ts), after section 4.4 of the specification.  *)
(* A file is a record of its path and its content; a content is the        *)
(* sequence of the pieces it was written in.                               *)
(***************************************************************************)
File(path, content) == [path |-> path, content |-> content]

\* the files maps agent state carries in the model, by name: the one of the
\* specification's example, one with directories, an empty one
generatedFilesMap(name) ==
    CASE name = "files" -> {File("a.txt", <<"1">>)}
      [] name = "tree" -> {File("b/c.txt", <<"2">>), File("b/d/e.txt", <<"3">>)}
      [] name = "empty" -> {}

\* the key of a path: forward slashes, no leading slash
normalizePath(path) ==
    CASE path = "/a.txt" -> "a.txt"
      [] path = "b\\c.txt" -> "b/c.txt"
      [] OTHER -> path

\* the keys of the files
paths(files) == {f.path : f \in files}

\* the file at path becomes content
upsert(files, path, content) ==
    {f \in files : f.path # path} \cup {[path |-> path, content |-> content]}

\* the content of the file at path, empty when there is none
contentOf(files, path) ==
    IF \E f \in files : f.path = path
    THEN (CHOOSE f \in files : f.path = path).content
    ELSE <<>>

\* workspaceApply with a snapshot merged into the files
workspaceApply_merges(files, msg) ==
    CASE msg.type \in {"cf_agent_state", "agent_connected"}
            /\ msg.files # Absent ->
            {f \in files : f.path \notin paths(generatedFilesMap(msg.files))}
                \cup generatedFilesMap(msg.files)
      [] msg.type \in {"file_generated", "file_regenerated"} ->
            upsert(files, normalizePath(msg.arg), <<msg.type>>)
      [] msg.type = "file_chunk_generated" ->
            upsert(files, normalizePath(msg.arg),
                   Append(contentOf(files, normalizePath(msg.arg)), "chunk"))
      [] OTHER -> files

\* workspaceApply with an incremental update that starts the files afresh
workspaceApply_resets(files, msg) ==
    CASE msg.type \in {"cf_agent_state", "agent_connected"}
            /\ msg.files # Absent ->
            generatedFilesMap(msg.files)
      [] msg.type \in {"file_generated", "file_regenerated"} ->
            upsert({}, normalizePath(msg.arg), <<msg.type>>)
      [] msg.type = "file_chunk_generated" ->
            upsert(files, normalizePath(msg.arg),
                   Append(contentOf(files, normalizePath(msg.arg)), "chunk"))
      [] OTHER -> files

\* the files after msg: a state snapshot with a files map replaces them all,
\* file_generated and file_regenerated set one file (the content of the
\* message is modelled by the message's type), file_chunk_generated appends
\* to one file
workspaceApply(files, msg) ==
    CASE msg.type \in {"cf_agent_state", "agent_connected"}
            /\ msg.files # Absent ->
            generatedFilesMap(msg.files)
      [] msg.type \in {"file_generated", "file_regenerated"} ->
            upsert(files, normalizePath(msg.arg), <<msg.type>>)
      [] msg.type = "file_chunk_generated" ->
            upsert(files, normalizePath(msg.arg),
                   Append(contentOf(files, normalizePath(msg.arg)), "chunk"))
      [] OTHER -> files

(***************************************************************************)
(* buildFileTree (session.ts:34-82).  TLC cannot take a string apart, so   *)
(* the string operations on the paths of the model are tables.             *)
(***************************************************************************)
\* the paths of the files whose tree is built: files at the root and in
\* directories, a file named like a directory, a path with an empty segment
TreePaths == {"a.txt", "b", "b/c.txt", "b/a.txt", "b/d/e.txt", "b//c.txt"}

\* p.split('/')
split(p) ==
    CASE p = "a.txt" -> <<"a.txt">>
      [] p = "b" -> <<"b">>
      [] p = "b/c.txt" -> <<"b", "c.txt">>
      [] p = "b/a.txt" -> <<"b", "a.txt">>
      [] p = "b/d/e.txt" -> <<"b", "d", "e.txt">>
      [] p = "b//c.txt" -> <<"b", "", "c.txt">>

\* .filter(Boolean): the empty string is the only falsy segment
filterBoolean(parts) == SelectSeq(parts, LAMBDA x : x # "")

\* curr.path ? `${curr.path}/${part}` : part (session.ts:55)
nextPathOf(path, part) ==
    CASE path = "" -> part
      [] path = "b" /\ part = "d" -> "b/d"
      [] path = "b" /\ part = "b" -> "b/b"

\* the place of a name in the order of localeCompare; on the names of the
\* model (lower-case letters and the dot) every locale agrees with the
\* order of the code units
nameRank(name) ==
    CASE name = "a.txt" -> 1
      [] name = "b" -> 2
      [] name = "c.txt" -> 3
      [] name = "d" -> 4
      [] name = "e.txt" -> 5

\* a.name.localeCompare(b.name): negative, zero or positive
localeCompare(a, b) == nameRank(a) - nameRank(b)

\* session.ts:42, 58
Dir(name, path) == [name |-> name, path |-> path, dirs |-> <<>>, files |-> <<>>]

\* Array.prototype.sort with the comparison by name: a stable sort
RECURSIVE sortByName(_)
sortByName(q) ==
    IF q = <<>> THEN <<>>
    ELSE LET done == sortByName(SubSeq(q, 1, Len(q) - 1))
             x == q[Len(q)]
             before == SelectSeq(done, LAMBDA y : localeCompare(y.name, x.name) <= 0)
             after == SelectSeq(done, LAMBDA y : localeCompare(y.name, x.name) > 0)
         IN  before \o <<x>> \o after

\* session.ts:47-62: the steps of the loop over the parts of p from the
\* i-th on, in the directory curr
RECURSIVE place(_, _, _, _)
place(curr, p, parts, i) ==
    IF i > Len(parts) THEN curr
    ELSE IF i = Len(parts)
    THEN [curr EXCEPT !.files =
                Append(@, [type |-> "file", name |-> parts[i], path |-> p])]
    ELSE LET at == {k \in 1..Len(curr.dirs) : curr.dirs[k].name = parts[i]}
         IN  IF at = {}
             THEN [curr EXCEPT !.dirs =
                        Append(@, place(Dir(parts[i],
                                            nextPathOf(curr.path, parts[i])),
                                        p, parts, i + 1))]
             ELSE LET k == CHOOSE k \in at : TRUE
                  IN  [curr EXCEPT !.dirs[k] = place(@, p, parts, i + 1)]

\* session.ts:44-63: the loop over the paths, from the directory root
RECURSIVE placeAll(_, _)
placeAll(root, ps) ==
    IF ps = <<>> THEN root
    ELSE placeAll(place(root, Head(ps), filterBoolean(split(Head(ps))), 1),
                  Tail(ps))

\* toNodes with the files ahead of the directories
RECURSIVE toNodes_filesFirst(_)
toNodes_filesFirst(dir) ==
    LET sorted == sortByName(dir.dirs)
        dirs == [k \in 1..Len(sorted) |->
                    [type |-> "dir", name |-> sorted[k].name,
                     path |-> sorted[k].path,
                     children |-> toNodes_filesFirst(sorted[k])]]
    IN  sortByName(dir.files) \o dirs

\* session.ts:65-79
RECURSIVE toNodes(_)
toNodes(dir) ==
    LET sorted == sortByName(dir.dirs)
        dirs == [k \in 1..Len(sorted) |->
                    [type |-> "dir", name |-> sorted[k].name,
                     path |-> sorted[k].path,
                     children |-> toNodes(sorted[k])]]
    IN  dirs \o sortByName(dir.files)

\* session.ts:34-82, for the paths ps in the order the workspace lists them
buildFileTree(ps) == toNodes(placeAll(Dir("", ""), ps))

\* the orders in which the workspace may list its paths
Listings(files) ==
    {q \in [1..Cardinality(paths(files)) -> paths(files)] :
        \A i, j \in DOMAIN q : q[i] = q[j] => i = j}

(***************************************************************************)
(* The waits (session.ts:224-330 on waitFor, ws.ts:256-274).               *)
(***************************************************************************)
\* the behavior types a session is constructed with: the phase-oriented
\* one, another one, and none (BuildStartEvent.behaviorType is optional,
\* types.ts:38)
BehaviorTypes == {"phasic", "agentic", Absent}

\* the reason wait.deployable returns (session.ts:249-263)
deployableReason(bt) ==
    IF bt = "phasic" THEN "phase_validated" ELSE "generation_complete"

\* the type the model's caller gives waitForPhase and waitForMessageType
PhaseAwaited == "phase_implemented"
TypeAwaited == "deployment_completed"

\* Awaited with wait.deployable taking every session for a phasic one
Awaited_alwaysPhasic(kind) ==
    CASE kind = "wait.previewDeployed" ->
            {"deployment_completed", "deployment_failed"}
      [] kind = "wait.cloudflareDeployed" ->
            {"cloudflare_deployment_completed", "cloudflare_deployment_error"}
      [] kind \in {"wait.generationStarted", "waitUntilReady"} ->
            {"generation_started"}
      [] kind = "wait.generationComplete" -> {"generation_complete"}
      [] kind = "wait.phase" -> {PhaseAwaited}
      [] kind = "wait.deployable" -> {"phase_validated"}
      [] kind = "waitForMessageType" -> {TypeAwaited}
      [] kind = "waitForMessageType.file_generated" -> {"file_generated"}

\* the message types for which the predicate of a wait holds
Awaited(kind) ==
    CASE kind = "wait.previewDeployed" ->
            {"deployment_completed", "deployment_failed"}
      [] kind = "wait.cloudflareDeployed" ->
            {"cloudflare_deployment_completed", "cloudflare_deployment_error"}
      [] kind \in {"wait.generationStarted", "waitUntilReady"} ->
            {"generation_started"}
      [] kind = "wait.generationComplete" -> {"generation_complete"}
      [] kind = "wait.phase" -> {PhaseAwaited}
      [] kind = "wait.deployable" ->
            IF behaviorType = "phasic" THEN {"phase_validated"}
            ELSE {"generation_complete"}
      [] kind = "waitForMessageType" -> {TypeAwaited}
      [] kind = "waitForMessageType.file_generated" -> {"file_generated"}

\* Rejects with the test on the message type left out
Rejects_never(kind, msg) == FALSE

\* the wait throws on msg after waitFor resolved (session.ts:272-274, 287-289)
Rejects(kind, msg) ==
    \/ kind = "wait.previewDeployed" /\ msg.type = "deployment_failed"
    \/ kind = "wait.cloudflareDeployed" /\ msg.type = "cloudflare_deployment_error"

\* how the wait of this kind is settled by msg; reason: the reason of the
\* value wait.deployable returns, Absent for the other waits
Outcome(kind, msg) ==
    [kind |-> kind,
     outcome |-> IF Rejects(kind, msg) THEN "rejected" ELSE "resolved",
     msg |-> msg,
     error |-> IF Rejects(kind, msg) THEN msg.arg ELSE Absent,
     reason |-> IF kind = "wait.deployable"
                THEN deployableReason(behaviorType) ELSE Absent]

\* the waits of the model are numbered 1..MaxWaiters; a number is free when
\* the wait that had it has left no listener, timer or pending promise
WaitIds == 1..MaxWaiters

InUse(w) ==
    {w.waitIds[i] : i \in 1..Len(w.waitIds)} \cup w.waitTimers \cup w.promises

\* the positions of q in order, as a sequence
Positions(q) == [i \in 1..Len(q) |-> i]

\* q without the elements at the positions in gone
Without(q, gone) ==
    LET keep == SelectSeq(Positions(q), LAMBDA i : i \notin gone)
    IN  [j \in 1..Len(keep) |-> q[keep[j]]]

\* the listener of waitFor without the clearTimeout
settleWaiters_keepsTimer(w, msg) ==
    LET hit == SelectSeq(Positions(w.waiters),
                         LAMBDA i : msg.type \in Awaited(w.waiters[i]))
        gone == {hit[j] : j \in 1..Len(hit)}
        ids == {w.waitIds[i] : i \in gone}
        won == SelectSeq(hit, LAMBDA i : w.waitIds[i] \in w.promises)
    IN  [w EXCEPT !.waiters = Without(@, gone),
                  !.waitIds = Without(@, gone),
                  !.promises = @ \ ids,
                  !.settled = @ \o [j \in 1..Len(won) |->
                                        Outcome(w.waiters[won[j]], msg)],
                  !.seen = @ \o [j \in 1..Len(won) |->
                                    Seen("wait", get(w), w.workspace)]]

\* ws.ts:267-272: the listener of every wait whose predicate holds for msg
\* clears the wait's timer, unsubscribes and resolves the wait's promise,
\* which settles it if it is pending; the listeners run in registration
\* order
settleWaiters(w, msg) ==
    LET hit == SelectSeq(Positions(w.waiters),
                         LAMBDA i : msg.type \in Awaited(w.waiters[i]))
        gone == {hit[j] : j \in 1..Len(hit)}
        ids == {w.waitIds[i] : i \in gone}
        won == SelectSeq(hit, LAMBDA i : w.waitIds[i] \in w.promises)
    IN  [w EXCEPT !.waiters = Without(@, gone),
                  !.waitIds = Without(@, gone),
                  !.waitTimers = @ \ ids,
                  !.promises = @ \ ids,
                  !.settled = @ \o [j \in 1..Len(won) |->
                                        Outcome(w.waiters[won[j]], msg)],
                  !.seen = @ \o [j \in 1..Len(won) |->
                                    Seen("wait", get(w), w.workspace)]]

\* ws.ts:262-265: the timeout of wait id unsubscribes its listener, if it is
\* still registered, and rejects its promise, which settles it if it is
\* pending
waitTimeout(w, id) ==
    LET gone == {i \in 1..Len(w.waitIds) : w.waitIds[i] = id}
        kind == IF gone = {} THEN Absent
                ELSE w.waiters[CHOOSE i \in gone : TRUE]
    IN  [w EXCEPT !.waiters = Without(@, gone),
                  !.waitIds = Without(@, gone),
                  !.waitTimers = @ \ {id},
                  !.promises = @ \ {id},
                  !.settled = IF id \in w.promises
                              THEN Append(@, [kind |-> kind,
                                              outcome |-> "rejected",
                                              msg |-> NoMsg,
                                              error |-> "timeout",
                                              reason |-> Absent])
                              ELSE @]

(***************************************************************************)
(* The typed event bus.  emit delivers synchronously; the only listeners   *)
(* the model registers are the session's (session.ts:148-171).  Delivery   *)
(* to the caller's own listeners is the record kept in events.             *)
(***************************************************************************)
RECURSIVE emit(_, _)
RECURSIVE sessionOnOpenAll(_, _)
RECURSIVE sessionOnCloseAll(_, _)
RECURSIVE sessionOnMessageAll(_, _, _)

\* one write to a socket: sock, the message, and whether sock had opened
Write(w, data) ==
    [sock |-> w.ws, msg |-> data, open |-> w.ws \in w.opened]

\* WebSocketLike.send on the current socket: the data goes on that socket's wire
wsSend(w, data) ==
    [w EXCEPT !.wire = Append(@, Write(w, data))]

RECURSIVE wsSendAll(_, _)
wsSendAll(w, q) ==
    IF q = <<>> THEN w ELSE wsSendAll(wsSend(w, Head(q)), Tail(q))

\* send with the overflow dropping the newest message instead of the oldest
send_dropsNewest(w, msg) ==
    IF w.isOpen /\ w.ws # NULL
    THEN wsSend(w, msg)
    ELSE IF Len(w.pendingSends) >= maxPendingSends
         THEN emit(w, Ev("ws:error", "overflow", 0))
         ELSE [w EXCEPT !.pendingSends = Append(@, msg)]

\* ws.ts:231-245
send(w, msg) ==
    IF w.isOpen /\ w.ws # NULL
    THEN wsSend(w, msg)
    ELSE LET q == [w EXCEPT !.pendingSends = Append(@, msg)]
         IN  IF Len(q.pendingSends) > maxPendingSends
             THEN emit([q EXCEPT !.pendingSends = Tail(@)],
                       Ev("ws:error", "overflow", 0))
             ELSE q

\* session.ts:152-154 and 161-171: the two ws:open listeners, in
\* registration order
sessionOnOpen(w) ==
    LET w1 == setConnection(w, "connected")
        w2 == IF w1.credentials /\ w1.connection # NULL
              THEN send(w1, Msg("session_init"))
              ELSE w1
    IN  IF w2.autoRequest /\ w2.connection # NULL
        THEN send(w2, Msg("get_conversation_state"))
        ELSE w2

\* session.ts:155-157
sessionOnClose(w) == setConnection(w, "disconnected")

\* the ws:message listener with the state store ahead of the workspace
sessionOnMessage_stateFirst(w, msg) ==
    LET w1 == stateApply(w, msg)
    IN  [w1 EXCEPT !.workspace = workspaceApply(@, msg)]

\* session.ts:148-151
sessionOnMessage(w, msg) ==
    LET w1 == [w EXCEPT !.workspace = workspaceApply(@, msg)]
    IN  stateApply(w1, msg)

\* the session's listeners of an event, once for each time connect() has
\* registered them
sessionOnOpenAll(w, n) ==
    IF n = 0 THEN w ELSE sessionOnOpenAll(sessionOnOpen(w), n - 1)

sessionOnCloseAll(w, n) ==
    IF n = 0 THEN w ELSE sessionOnCloseAll(sessionOnClose(w), n - 1)

sessionOnMessageAll(w, msg, n) ==
    IF n = 0 THEN w
    ELSE sessionOnMessageAll(sessionOnMessage(w, msg), msg, n - 1)

\* emit with the listeners of the waits ahead of the session's
emit_waitsFirst(w, e) ==
    LET w1 == [w EXCEPT !.events = Append(@, e)]
    IN  CASE e.name = "ws:open" -> sessionOnOpenAll(w1, w1.listeners)
          [] e.name = "ws:close" -> sessionOnCloseAll(w1, w1.listeners)
          [] e.name = "ws:message" ->
                sessionOnMessageAll(settleWaiters(w1, e.msg), e.msg,
                                    w1.listeners)
          [] OTHER -> w1

\* the listeners of ws:message in registration order: the session's, then
\* the waits'
emit(w, e) ==
    LET w1 == [w EXCEPT !.events = Append(@, e)]
    IN  CASE e.name = "ws:open" -> sessionOnOpenAll(w1, w1.listeners)
          [] e.name = "ws:close" -> sessionOnCloseAll(w1, w1.listeners)
          [] e.name = "ws:message" ->
                settleWaiters(sessionOnMessageAll(w1, e.msg, w1.listeners),
                              e.msg)
          [] OTHER -> w1

(***************************************************************************)
(* createAgentConnection's closures (ws.ts).                               *)
(***************************************************************************)
\* ws.ts:43-47
clearReconnectTimer(w) ==
    IF ~w.reconnectTimer THEN w
    ELSE [w EXCEPT !.reconnectTimer = FALSE, !.timers = @ - 1]

\* ws.ts:54-58
flushPendingSends(w) ==
    IF w.ws = NULL \/ ~w.isOpen THEN w
    ELSE [wsSendAll(w, w.pendingSends) EXCEPT !.pendingSends = <<>>]

\* scheduleReconnect without the guard on retry being enabled
scheduleReconnect_ignoresEnabled(w, reason) ==
    IF w.closedByUser THEN w
    ELSE IF w.reconnectAttempts >= w.maxRetries THEN w
    ELSE IF w.reconnectTimer THEN w
    ELSE LET w1 == emit(w, Ev("ws:reconnecting", reason, w.reconnectAttempts + 1))
         IN  [w1 EXCEPT !.reconnectAttempts = @ + 1,
                        !.reconnectTimer = TRUE,
                        !.timers = @ + 1]

\* scheduleReconnect without the guard on a timer already pending
scheduleReconnect_noTimerGuard(w, reason) ==
    IF w.closedByUser THEN w
    ELSE IF ~w.retryEnabled THEN w
    ELSE IF w.reconnectAttempts >= w.maxRetries THEN w
    ELSE LET w1 == emit(w, Ev("ws:reconnecting", reason, w.reconnectAttempts + 1))
         IN  [w1 EXCEPT !.reconnectAttempts = @ + 1,
                        !.reconnectTimer = TRUE,
                        !.timers = @ + 1]

\* ws.ts:60-78 (the timer's callback is the action ReconnectTimerFires)
scheduleReconnect(w, reason) ==
    IF w.closedByUser THEN w
    ELSE IF ~w.retryEnabled THEN w
    ELSE IF w.reconnectAttempts >= w.maxRetries THEN w
    ELSE IF w.reconnectTimer THEN w
    ELSE LET w1 == emit(w, Ev("ws:reconnecting", reason, w.reconnectAttempts + 1))
         IN  [w1 EXCEPT !.reconnectAttempts = @ + 1,
                        !.reconnectTimer = TRUE,
                        !.timers = @ + 1]

\* onOpen flushing the queue before it emits ws:open
onOpen_flushFirst(w) ==
    emit(flushPendingSends([w EXCEPT !.isOpen = TRUE, !.reconnectAttempts = 0]),
         Ev("ws:open", "", 0))

\* ws.ts:80-86
onOpen(w) ==
    flushPendingSends(
        emit([w EXCEPT !.isOpen = TRUE, !.reconnectAttempts = 0],
             Ev("ws:open", "", 0)))

\* onClose on a connection whose listeners go with the socket
onClose_dropsWaits(w) ==
    scheduleReconnect(
        emit([w EXCEPT !.isOpen = FALSE, !.waiters = <<>>, !.waitIds = <<>>],
             Ev("ws:close", "", 0)), "close")

\* ws.ts:88-92
onClose(w) ==
    scheduleReconnect(
        emit([w EXCEPT !.isOpen = FALSE], Ev("ws:close", "", 0)), "close")

\* ws.ts:94-98
onError(w, what) ==
    scheduleReconnect(emit(w, Ev("ws:error", what, 0)), "error")

\* ws.ts:107-137: the typed message of raw, or NoMsg; w carries the ws:raw
\* events of the payloads found in a type field
RECURSIVE normalizeServerPayload(_, _)
normalizeServerPayload(w, raw) ==
    IF raw.shape # "object" THEN [w |-> w, parsed |-> NoMsg]
    ELSE IF raw.wrap > 0
    THEN LET inner == [raw EXCEPT !.wrap = @ - 1]
             r == normalizeServerPayload(w, inner)
         IN  IF r.parsed # NoMsg THEN r
             ELSE [w |-> emit(r.w, EvRaw(inner)), parsed |-> NoMsg]
    ELSE IF raw.msg.type # Absent THEN [w |-> w, parsed |-> raw.msg]
    ELSE IF raw.stateAt \in {"nested", "top"}
    THEN [w |-> w, parsed |-> [raw.msg EXCEPT !.type = "cf_agent_state"]]
    ELSE [w |-> w, parsed |-> NoMsg]

\* the sugar event of a message type (ws.ts:151-195), "" when it has none
SugarOf(type) ==
    CASE type = "agent_connected" -> "connected"
      [] type \in ConversationTypes -> "conversation"
      [] type \in PhaseTypes -> "phase"
      [] type \in FileTypes -> "file"
      [] type \in GenerationTypes -> "generation"
      [] type \in PreviewTypes -> "preview"
      [] type \in CloudflareTypes -> "cloudflare"
      [] type = "error" -> "error"
      [] OTHER -> ""

\* sugar that takes the server's error message for an error of the socket
sugar_errorReconnects(w, parsed) ==
    IF parsed.type = "error"
    THEN onError(w, "protocol")
    ELSE IF SugarOf(parsed.type) # ""
    THEN emit(w, EvMsg(SugarOf(parsed.type), parsed))
    ELSE w

\* ws.ts:150-195
sugar(w, parsed) ==
    IF parsed.type = "error"
    THEN emit(w, Ev("error",
                    IF parsed.arg # Absent THEN parsed.arg ELSE "Unknown error",
                    0))
    ELSE IF SugarOf(parsed.type) # ""
    THEN emit(w, EvMsg(SugarOf(parsed.type), parsed))
    ELSE w

\* onMessage with the sugar event ahead of ws:message
onMessage_sugarFirst(w, data) ==
    IF data.shape = "not_json" THEN onError(w, "parse")
    ELSE LET r == normalizeServerPayload(w, data)
         IN  IF r.parsed = NoMsg THEN emit(r.w, EvRaw(data))
             ELSE emit(sugar(r.w, r.parsed), EvMsg("ws:message", r.parsed))

\* onMessage that takes a type its switch does not name for an error
onMessage_unknownIsError(w, data) ==
    IF data.shape = "not_json" THEN onError(w, "parse")
    ELSE LET r == normalizeServerPayload(w, data)
         IN  IF r.parsed = NoMsg THEN emit(r.w, EvRaw(data))
             ELSE IF r.parsed.type \notin SugarTypes \cup {"cf_agent_state"}
             THEN onError(r.w, "unknown")
             ELSE sugar(emit(r.w, EvMsg("ws:message", r.parsed)), r.parsed)

\* onMessage that publishes an unclassified payload as a typed message too
onMessage_rawAlsoTyped(w, data) ==
    IF data.shape = "not_json" THEN onError(w, "parse")
    ELSE LET r == normalizeServerPayload(w, data)
         IN  IF r.parsed = NoMsg
             THEN emit(emit(r.w, EvRaw(data)),
                       EvMsg("ws:message",
                             Snapshot("cf_agent_state", Absent, "files")))
             ELSE sugar(emit(r.w, EvMsg("ws:message", r.parsed)), r.parsed)

\* onMessage that swallows a parse failure
onMessage_ignoresParse(w, data) ==
    IF data.shape = "not_json" THEN w
    ELSE LET r == normalizeServerPayload(w, data)
         IN  IF r.parsed = NoMsg THEN emit(r.w, EvRaw(data))
             ELSE sugar(emit(r.w, EvMsg("ws:message", r.parsed)), r.parsed)

\* ws.ts:139-199; JSON.parse throws on text that is not JSON
onMessage(w, data) ==
    IF data.shape = "not_json" THEN onError(w, "parse")
    ELSE LET r == normalizeServerPayload(w, data)
         IN  IF r.parsed = NoMsg THEN emit(r.w, EvRaw(data))
             ELSE sugar(emit(r.w, EvMsg("ws:message", r.parsed)), r.parsed)

\* ws.ts:49-52 and the assignment of ws.ts:206: the factory returns socket
\* number nSock + 1
makeWebSocket(w) ==
    [w EXCEPT !.nSock = @ + 1,
              !.sockState[w.nSock + 1] = "connecting",
              !.ws = w.nSock + 1]

\* the factory throws: no socket exists under the number the call took
factoryThrew(w) ==
    [w EXCEPT !.nSock = @ + 1, !.sockState[w.nSock + 1] = "thrown"]

\* ws.ts:201-227; factoryThrows: the factory throws instead of returning
connectNow(w, factoryThrows) ==
    IF w.closedByUser THEN w
    ELSE LET w1 == clearReconnectTimer(w)
         IN  IF factoryThrows
             THEN scheduleReconnect(onError(factoryThrew(w1), "factory"),
                                    "error")
             ELSE makeWebSocket(w1)

\* WebSocketLike.close on the current socket: a socket that is still
\* connecting or open starts its closing handshake ("shutting") and will
\* deliver its close event
wsClose(w) ==
    IF w.ws # NULL /\ w.sockState[w.ws] \in {"connecting", "open"}
    THEN [w EXCEPT !.sockState[w.ws] = "shutting"]
    ELSE w

\* close that leaves the reconnect timer pending
close_keepsTimer(w) ==
    LET w1 == [w EXCEPT !.closedByUser = TRUE,
                        !.isOpen = FALSE,
                        !.pendingSends = <<>>]
    IN  [wsClose(w1) EXCEPT !.ws = NULL]

\* close that leaves the queue as it is
close_keepsQueue(w) ==
    LET w1 == [w EXCEPT !.closedByUser = TRUE, !.isOpen = FALSE]
    IN  [wsClose(clearReconnectTimer(w1)) EXCEPT !.ws = NULL]

\* close that keeps its reference to the socket
close_keepsSocket(w) ==
    LET w1 == [w EXCEPT !.closedByUser = TRUE,
                        !.isOpen = FALSE,
                        !.pendingSends = <<>>]
    IN  wsClose(clearReconnectTimer(w1))

\* ws.ts:247-254
close(w) ==
    LET w1 == [w EXCEPT !.closedByUser = TRUE,
                        !.isOpen = FALSE,
                        !.pendingSends = <<>>]
    IN  [wsClose(clearReconnectTimer(w1)) EXCEPT !.ws = NULL]

(***************************************************************************)
(* BuildSession (session.ts).                                              *)
(***************************************************************************)
\* session.ts:339-343
assertConnected(w) == w.connection # NULL

\* session.ts:176-218: every command method is assertConnected, then send
command(w, method) ==
    IF ~assertConnected(w) THEN [w EXCEPT !.threw = TRUE]
    ELSE send(w, Msg(CommandType(method)))

\* session.ts:224-330: every wait is assertConnected, then waitFor on the
\* connection (ws.ts:256-274), which makes a promise, starts the timeout
\* timer and registers a listener; the wait takes the lowest free number
wait(w, kind) ==
    IF ~assertConnected(w) THEN [w EXCEPT !.threw = TRUE]
    ELSE LET id == CHOOSE i \in WaitIds \ InUse(w) :
                        \A j \in WaitIds \ InUse(w) : i <= j
         IN  [w EXCEPT !.waiters = Append(@, kind),
                       !.waitIds = Append(@, id),
                       !.waitTimers = @ \cup {id},
                       !.promises = @ \cup {id}]

\* connect() without its test on the connection it has
connect_again(w, cred, auto, retry, factoryThrows) ==
    connectNow([setConnection(w, "connecting") EXCEPT
                      !.connection = 1,
                      !.listeners = @ + 1,
                      !.created = TRUE,
                      !.credentials = cred,
                      !.autoRequest = auto,
                      !.retryEnabled = retry.enabled,
                      !.maxRetries = retry.maxRetries],
               factoryThrows)

\* session.ts:125-174
connect(w, cred, auto, retry, factoryThrows) ==
    IF w.connection # NULL THEN w
    ELSE connectNow([setConnection(w, "connecting") EXCEPT
                              !.connection = 1,
                              !.listeners = @ + 1,
                              !.created = TRUE,
                              !.credentials = cred,
                              !.autoRequest = auto,
                              !.retryEnabled = retry.enabled,
                              !.maxRetries = retry.maxRetries],
                    factoryThrows)

\* session.ts:332-337
sessionClose(w) ==
    LET w1 == IF w.connection # NULL THEN close(w) ELSE w
    IN  clear([w1 EXCEPT !.connection = NULL, !.workspace = {}])

(***************************************************************************)
(* Initial state: a BuildSession just constructed, not yet connected.      *)
(***************************************************************************)
\* every field but the behavior type
Constructed ==
    /\ connection = NULL
    /\ connState = "disconnected"
    /\ listeners = 0
    /\ created = FALSE
    /\ credentials = FALSE
    /\ autoRequest = TRUE
    /\ retryEnabled = TRUE
    /\ maxRetries = Infinity
    /\ ws = NULL
    /\ isOpen = FALSE
    /\ closedByUser = FALSE
    /\ reconnectAttempts = 0
    /\ reconnectTimer = FALSE
    /\ pendingSends = <<>>
    /\ timers = 0
    /\ nSock = 0
    /\ sockState = [s \in Sockets |-> "none"]
    /\ opened = {}
    /\ wire = <<>>
    /\ waiters = <<>>
    /\ waitIds = <<>>
    /\ waitTimers = {}
    /\ promises = {}
    /\ events = <<>>
    /\ sinceOpen = 0
    /\ state = Fields(INITIAL_STATE)
    /\ stateRef = 0
    /\ changes = <<>>
    /\ written = {}
    /\ seen = <<>>
    /\ workspace = {}
    /\ workspaceWas = {}
    /\ tree = <<>>
    /\ settled = <<>>
    /\ received = NoPayload
    /\ delivered = 0
    /\ replay = INITIAL_STATE
    /\ replayPhase = "fresh"
    /\ last = [op |-> "new", arg |-> 0, threw |-> FALSE]

\* the session of the model is a phasic one unless a specification says
\* otherwise
Init == Constructed /\ behaviorType = "phasic"

\* a session of any behavior type
InitAnyBehavior == Constructed /\ behaviorType \in BehaviorTypes

(***************************************************************************)
(* Actions.                                                                *)
(***************************************************************************)
\* the factory can be called once more
CanMake == nSock < MaxSockets

\* session.connect(options).  The model follows one connection instance: a
\* connect() after close() would create a second one.
ConnectWith(creds, autos, retries) ==
    \E cred \in creds, auto \in autos, retry \in retries, thr \in BOOLEAN :
        /\ connection # NULL \/ ~created
        /\ CanMake
        /\ Commit(connect(Cur, cred, auto, retry, thr), "connect", 0)

Connect == ConnectWith(BOOLEAN, BOOLEAN, RetryOptions)

\* session.connect() with no options and no default credentials
ConnectDefault == ConnectWith({FALSE}, {TRUE}, {WS_RETRY_DEFAULTS})

\* a command method of the session
Command ==
    \E m \in Methods :
        Commit(command(Cur, m), m, 0)

\* any of the session's command methods
AnyCommand ==
    \E m \in AllMethods :
        Commit(command(Cur, m), m, 0)

\* a wait of the session, of one of the kinds
WaitFor(kinds) ==
    \E k \in kinds :
        /\ connection = NULL \/ WaitIds \ InUse(Cur) # {}
        /\ Commit(wait(Cur, k), k, 0)

\* any of the session's waits
Wait == WaitFor(WaitKinds)

\* wait.previewDeployed() or wait.cloudflareDeployed()
DeployWait == WaitFor({"wait.previewDeployed", "wait.cloudflareDeployed"})

\* the timeout timer of a wait fires
WaitTimeout ==
    \E id \in waitTimers :
        Commit(waitTimeout(Cur, id), "wait.timeout", id)

\* session.close(); last.arg keeps the length of the queue it found
SessionClose ==
    Commit(sessionClose(Cur), "session.close", Len(pendingSends))

\* close() on the AgentConnection that connect() returned
ConnectionClose ==
    /\ created
    /\ Commit(close(Cur), "close", Len(pendingSends))

\* socket s reports that it is open
SocketOpen ==
    \E s \in Sockets :
        /\ sockState[s] = "connecting"
        /\ Commit(onOpen([Cur EXCEPT !.sockState[s] = "open",
                                     !.opened = @ \cup {s},
                                     !.sinceOpen = 0]),
                  "open", s)

\* socket s reports that it is closed: the peer or the network closed it, or
\* the close the program asked for has completed
SocketClose ==
    \E s \in Sockets :
        /\ sockState[s] \in {"connecting", "open", "closing", "shutting"}
        /\ Commit(onClose([Cur EXCEPT !.sockState[s] = "closed"]),
                  "close_event", s)

\* socket s reports an error: its connection has failed and its close event
\* is still to come
SocketError ==
    \E s \in Sockets :
        /\ sockState[s] \in {"connecting", "open"}
        /\ Commit(onError([Cur EXCEPT !.sockState[s] = "closing"], "socket"),
                  "error_event", s)

\* open socket s delivers a payload
SocketMessage ==
    \E s \in Sockets, data \in Payloads :
        /\ sockState[s] = "open"
        /\ Commit(onMessage([Cur EXCEPT !.received = data], data),
                  "message", s)

\* the reconnect timer's callback (ws.ts:74-77), while the factory has been
\* called fewer than limit times
TimerFires(limit) ==
    \E thr \in BOOLEAN :
        /\ timers > 0
        /\ nSock < limit
        /\ Commit(connectNow([Cur EXCEPT !.reconnectTimer = FALSE,
                                         !.timers = @ - 1,
                                         !.sinceOpen =
                                            IF closedByUser THEN @ ELSE @ + 1],
                              thr),
                  "timer", 0)

ReconnectTimerFires == TimerFires(MaxSockets)

\* open socket s delivers one of the payloads; the deliveries are counted
Delivers(payloads) ==
    \E s \in Sockets, data \in payloads :
        /\ sockState[s] = "open"
        /\ delivered < MaxDeliveries
        /\ Commit(onMessage([Cur EXCEPT !.delivered = @ + 1,
                                        !.received = data], data),
                  "message", s)

\* open socket s delivers any payload of the model
SocketDelivers == Delivers(AllPayloads)

\* the payloads of a server that is deploying: the deployment messages
\* and text that is not JSON
DeployPayloads ==
    {Json(m) : m \in {n \in TypedMessages :
                        n.type \in PreviewTypes \cup CloudflareTypes}}
        \cup {NotJson}

DeployDelivers == Delivers(DeployPayloads)

\* the environment of the stores keeps the count of files within MaxFiles
CanApply(st, m) ==
    m.type = "file_generated" => filesGeneratedOf(st.generation) < MaxFiles

\* the second store alone is given a message, before the session's store
\* has been given any
ReplayApply ==
    \E m \in TypedMessages :
        /\ replayPhase \in {"fresh", "dirty", "cleared"}
        /\ CanApply(replay, m)
        /\ Commit([Cur EXCEPT !.replay = applyWsMessage(@, m),
                              !.replayPhase = "dirty"],
                  "replay.apply", 0)

\* clear() on the second store
ReplayClear ==
    /\ replayPhase \in {"fresh", "dirty", "cleared"}
    /\ Commit([Cur EXCEPT !.replay = stateClear(@),
                          !.replayPhase = IF @ = "fresh" THEN @ ELSE "cleared"],
              "replay.clear", 0)

\* the same message is applied to the session's store, which is new, and to
\* the second, which is new ("fed") or was cleared ("refed")
Replay ==
    \E m \in TypedMessages :
        /\ replayPhase \in {"fresh", "cleared", "fed", "refed"}
        /\ CanApply(replay, m)
        /\ Commit(stateApply([Cur EXCEPT !.replay = applyWsMessage(@, m),
                                         !.replayPhase =
                                            IF @ \in {"fresh", "fed"}
                                            THEN "fed" ELSE "refed"],
                             m),
                  "replay", 0)

Next ==
    \/ Connect
    \/ Command
    \/ SessionClose
    \/ ConnectionClose
    \/ SocketOpen
    \/ SocketClose
    \/ SocketError
    \/ SocketMessage
    \/ ReconnectTimerFires

Spec == Init /\ [][Next]_vars

\* the session with all of its command methods and its waits, connected
\* with the default options
NextSession ==
    \/ ConnectDefault
    \/ AnyCommand
    \/ Wait
    \/ SessionClose
    \/ ConnectionClose
    \/ SocketOpen
    \/ SocketClose
    \/ SocketError
    \/ SocketMessage
    \/ ReconnectTimerFires

SpecSession == Init /\ [][NextSession]_vars

\* a connection with a retry limit, left alone by its caller: connect, the
\* socket events, the timer and close
ConnectLimited ==
    ConnectWith({FALSE}, {FALSE}, {[enabled |-> TRUE, maxRetries |-> RetryLimit]})

RetryTimerFires == TimerFires(MaxRetrySockets)

NextRetry ==
    \/ ConnectLimited
    \/ ConnectionClose
    \/ SocketOpen
    \/ SocketClose
    \/ SocketError
    \/ SocketMessage
    \/ RetryTimerFires

SpecRetry == Init /\ [][NextRetry]_vars

\* session.connect({ retry }) with no credentials
ConnectRetrying == ConnectWith({FALSE}, {TRUE}, RetryOptions)

\* a session whose socket delivers every payload of the model, up to the
\* time a reconnect timer would fire
NextMessages ==
    \/ ConnectRetrying
    \/ SessionClose
    \/ SocketOpen
    \/ SocketClose
    \/ SocketError
    \/ SocketDelivers

SpecMessages == Init /\ [][NextMessages]_vars

\* a session with deployment waits whose sockets deliver the payloads of a
\* deploying server
NextWaits ==
    \/ ConnectDefault
    \/ DeployWait
    \/ WaitTimeout
    \/ SessionClose
    \/ SocketOpen
    \/ SocketClose
    \/ DeployDelivers
    \/ ReconnectTimerFires

SpecWaits == Init /\ [][NextWaits]_vars

\* wait.deployable()
DeployableWait == WaitFor({"wait.deployable"})

\* the payloads of a server that is generating: the start, the end of the
\* generation and the end of a phase
ReadyPayloads ==
    {Json(Message("generation_started", "3")),
     Json(Message("generation_complete", "https://x")),
     Json(Message("phase_validated", "plan"))}

ReadyDelivers == Delivers(ReadyPayloads)

\* a session of any behavior type with waits for the deployable state
NextDeployable ==
    \/ ConnectDefault
    \/ DeployableWait
    \/ WaitTimeout
    \/ SessionClose
    \/ SocketOpen
    \/ SocketClose
    \/ SocketError
    \/ ReadyDelivers
    \/ ReconnectTimerFires

SpecDeployable == InitAnyBehavior /\ [][NextDeployable]_vars

\* a socket that was open when close() was called on it delivers one of the
\* payloads before its closing handshake is over: the listeners stay on the
\* socket (ws.ts:213-226), and a runtime whose sockets publish what they
\* receive while closing calls them
LateDelivers(payloads) ==
    \E s \in Sockets, data \in payloads :
        /\ sockState[s] = "shutting"
        /\ s \in opened
        /\ delivered < MaxDeliveries
        /\ Commit(onMessage([Cur EXCEPT !.delivered = @ + 1,
                                        !.received = data], data),
                  "message", s)

\* waitForMessageType(TypeAwaited) or wait.generationStarted()
TypeWait == WaitFor({"waitForMessageType", "wait.generationStarted"})

\* the payloads of a server that deploys a preview after a generation
PreviewPayloads ==
    {Json(Message("generation_started", "3")),
     Json(Message("deployment_started", Absent)),
     Json(Message("deployment_completed", "https://x"))}

PreviewDelivers == Delivers(PreviewPayloads)

PreviewDeliversLate == LateDelivers(PreviewPayloads)

\* a session with waits for a message type, closed by its caller at any time
NextSettle ==
    \/ ConnectDefault
    \/ TypeWait
    \/ WaitTimeout
    \/ SessionClose
    \/ ConnectionClose
    \/ SocketOpen
    \/ SocketClose
    \/ SocketError
    \/ PreviewDelivers
    \/ PreviewDeliversLate
    \/ ReconnectTimerFires

SpecSettle == Init /\ [][NextSettle]_vars

\* the payloads of a server that reports files: state snapshots with and
\* without a files map, in an envelope or bare, and the messages of single
\* files, under keys and under a path that is not a key
WorkspacePayloads ==
    {Json(Snapshot("cf_agent_state", Absent, f)) :
        f \in {"files", "tree", "empty", Absent}}
        \cup {Json(Snapshot("agent_connected", Absent, f)) : f \in {"tree", Absent}}
        \cup {Raw("object", Snapshot(Absent, Absent, "files"), "nested", 0)}
        \cup {Json(Message(t, p)) :
                t \in {"file_generated", "file_regenerated",
                       "file_chunk_generated"},
                p \in {"a.txt", "/a.txt", "b/c.txt"}}
        \cup {Json(Message("file_generating", "a.txt"))}

WorkspaceDelivers == Delivers(WorkspacePayloads)

\* a session whose server reports files
NextWorkspace ==
    \/ ConnectDefault
    \/ SessionClose
    \/ SocketOpen
    \/ SocketClose
    \/ WorkspaceDelivers

SpecWorkspace == Init /\ [][NextWorkspace]_vars

\* the messages that put files under the paths of TreePaths
TreeMessages ==
    {Message("file_generated", p) : p \in TreePaths}
        \cup {Snapshot("cf_agent_state", Absent, f) : f \in {"files", "tree"}}

\* the workspace store is given a message (session.ts:149) that leaves it
\* with MaxPaths files at most
WorkspaceApply ==
    \E m \in TreeMessages :
        /\ Cardinality(workspaceApply(workspace, m)) <= MaxPaths
        /\ Commit([Cur EXCEPT !.workspace = workspaceApply(@, m)],
                  "workspace.apply", 0)

\* session.files.tree() (session.ts:98)
FilesTree ==
    \E ps \in Listings(workspace) :
        Commit([Cur EXCEPT !.tree = buildFileTree(ps)], "files.tree", 0)

\* a workspace store and the trees of its files
NextTree ==
    \/ WorkspaceApply
    \/ FilesTree

SpecTree == Init /\ [][NextTree]_vars

\* open socket s delivers one of the payloads, as often as the count of the
\* files allows
Receives(payloads) ==
    \E s \in Sockets, data \in payloads :
        /\ sockState[s] = "open"
        /\ CanApply(get(Cur), data.msg)
        /\ Commit(onMessage([Cur EXCEPT !.received = data], data),
                  "message", s)

\* the payloads of a server that generates files, with one message for
\* each of the other parts of the session state
GenerationPayloads ==
    {Json(m) : m \in {n \in TypedMessages :
                        n.type \in GenerationTypes
                                    \cup {"file_generating", "file_generated"}}}
        \cup {Json(Message("agent_connected", "https://y")),
              Json(Message("error", "boom")),
              Json(Message("phase_generating", "plan")),
              Json(Message("deployment_started", Absent)),
              Json(Message("cloudflare_deployment_started", Absent))}

GenerationReceives == Receives(GenerationPayloads)

\* a session whose server generates files
NextGeneration ==
    \/ ConnectDefault
    \/ SocketOpen
    \/ SessionClose
    \/ GenerationReceives

SpecGeneration == Init /\ [][NextGeneration]_vars

\* a socket the program has closed before it had opened reports open all
\* the same: its listeners are still attached (ws.ts:214, 222)
LateOpen ==
    \E s \in Sockets :
        /\ sockState[s] = "shutting"
        /\ s \notin opened
        /\ Commit(onOpen([Cur EXCEPT !.opened = @ \cup {s},
                                     !.sinceOpen = 0]),
                  "open", s)

\* a session whose caller closes it or its connection at any time and goes
\* on sending, and whose closed sockets still report open
NextClosed ==
    \/ Connect
    \/ Command
    \/ SessionClose
    \/ ConnectionClose
    \/ SocketOpen
    \/ LateOpen
    \/ SocketClose
    \/ SocketError
    \/ ReconnectTimerFires

SpecClosed == Init /\ [][NextClosed]_vars

\* the payloads of a server that has started to generate files, beside a
\* message of a later protocol version and text that is not JSON
LatePayloads ==
    {Json(Message("generation_started", "3")),
     Json(Message("file_generated", "a.txt")),
     Json(Message("future_feature", Absent)),
     NotJson}

LatePayloadDelivers == Delivers(LatePayloads)

LatePayloadDeliversLate == LateDelivers(LatePayloads)

\* a session closed by its caller at any time, whose socket goes on
\* delivering messages during its closing handshake, up to its close event
NextLate ==
    \/ ConnectDefault
    \/ SessionClose
    \/ SocketOpen
    \/ SocketClose
    \/ SocketError
    \/ LatePayloadDelivers
    \/ LatePayloadDeliversLate
    \/ ReconnectTimerFires

SpecLate == Init /\ [][NextLate]_vars

\* waitForMessageType('file_generated') or wait.generationStarted()
FileWait ==
    WaitFor({"waitForMessageType.file_generated", "wait.generationStarted"})

\* the payloads of a server that generates the files of a workspace
OrderPayloads ==
    {Json(Message("generation_started", "3")),
     Json(Message("file_generating", "a.txt")),
     Json(Message("file_generated", "a.txt")),
     Json(Message("file_generated", "b/c.txt")),
     Json(Message("generation_complete", Absent))}

OrderReceives == Receives(OrderPayloads)

\* a session that waits for the files its server generates
NextOrder ==
    \/ ConnectDefault
    \/ FileWait
    \/ WaitTimeout
    \/ SocketOpen
    \/ SocketClose
    \/ OrderReceives

SpecOrder == Init /\ [][NextOrder]_vars

\* wait.generationComplete() or wait.previewDeployed(), called while the
\* connection's first socket is connecting or open
WaitOnFirstSocket ==
    /\ nSock = 1
    /\ sockState[1] \in {"connecting", "open"}
    /\ WaitFor({"wait.generationComplete", "wait.previewDeployed"})

\* the payloads of a server that completes a generation and deploys it,
\* and text that is not JSON
ReconnectPayloads ==
    {Json(Message("generation_complete", "https://x")),
     Json(Message("deployment_started", Absent)),
     Json(Message("deployment_completed", "https://x")),
     NotJson}

ReconnectDelivers == Delivers(ReconnectPayloads)

\* a session whose waits are registered on its first socket and whose
\* connection reconnects
NextReconnect ==
    \/ ConnectDefault
    \/ WaitOnFirstSocket
    \/ WaitTimeout
    \/ SocketOpen
    \/ SocketClose
    \/ SocketError
    \/ ReconnectDelivers
    \/ ReconnectTimerFires

SpecReconnect == Init /\ [][NextReconnect]_vars

\* connect() called again and again on a session whose connection opens,
\* fails, drops and reconnects
NextConnect ==
    \/ Connect
    \/ Command
    \/ SocketOpen
    \/ SocketClose
    \/ SocketError
    \/ ReconnectTimerFires

SpecConnect == Init /\ [][NextConnect]_vars

\* two state stores given the same messages
NextReducer ==
    \/ ReplayApply
    \/ ReplayClear
    \/ Replay

SpecReducer == Init /\ [][NextReducer]_vars

(***************************************************************************)
(* Vocabulary of the properties.                                           *)
(***************************************************************************)
Live == {s \in Sockets : sockState[s] \in {"connecting", "open"}}

CountEvents(evs, name) == Cardinality({i \in 1..Len(evs) : evs[i].name = name})

CountInfo(evs, name, info) ==
    Cardinality({i \in 1..Len(evs) : evs[i].name = name /\ evs[i].info = info})

WireMsgs(wr) == [i \in 1..Len(wr) |-> wr[i].msg]

\* what the session's open handler sends under the connect() options
InitMsgs ==
    (IF credentials THEN <<"session_init">> ELSE <<>>)
        \o (IF autoRequest THEN <<"get_conversation_state">> ELSE <<>>)

\* what that handler sends on an open: nothing once the session has dropped
\* its connection (this.connection?.send)
OpenHandlerMsgs == IF connection # NULL THEN InitMsgs ELSE <<>>

\* the messages the handler named op is about to put in the queue: a
\* command's message when the connection is not open, the open handler's
\* messages when the connection holds no socket
Enqueued(op) ==
    IF op \in AllMethods /\ connection # NULL /\ ~(isOpen /\ ws # NULL)
    THEN <<CommandType(op)>>
    ELSE IF op = "open" /\ ws = NULL THEN OpenHandlerMsgs
    ELSE <<>>

\* the last n elements of q
LastN(q, n) ==
    IF Len(q) <= n THEN q ELSE SubSeq(q, Len(q) - n + 1, Len(q))

Positive(n) == IF n > 0 THEN n ELSE 0

\* the connection may reconnect: scheduleReconnect's first three guards pass
Eligible == ~closedByUser /\ retryEnabled /\ reconnectAttempts < maxRetries

(***************************************************************************)
(* C1: at most one socket constructed by the connection is live            *)
(* (constructed and not yet closed) in every reachable state.              *)
(***************************************************************************)
C1_AtMostOneLiveSocket == Cardinality(Live) <= 1

(***************************************************************************)
(* C2: at most one reconnect timer is pending at any time, and a trigger   *)
(* that arrives while a reconnect is scheduled schedules nothing, emits no *)
(* ws:reconnecting and does not increment reconnectAttempts; no handler    *)
(* (a factory exception inside connectNow included) schedules twice.       *)
(***************************************************************************)
C2_TimerAgrees == timers <= 1 /\ (reconnectTimer <=> timers = 1)

C2_SecondTriggerIdle ==
    (reconnectTimer /\ last'.op \in {"close_event", "error_event", "message"})
        => /\ reconnectTimer' /\ timers' = timers
           /\ reconnectAttempts' = reconnectAttempts
           /\ CountEvents(events', "ws:reconnecting") = 0

C2_OncePerHandler ==
    /\ CountEvents(events', "ws:reconnecting") <= 1
    /\ reconnectAttempts' <= reconnectAttempts + 1
    /\ timers' <= timers + 1

C2_OneReconnectTimer ==
    /\ []C2_TimerAgrees
    /\ [][C2_SecondTriggerIdle /\ C2_OncePerHandler]_vars

\* a close event arrived for a socket whose error had already scheduled the
\* reconnect, on a connection that could otherwise have scheduled one
C2_Witness ==
    /\ last.op = "close_event" /\ reconnectTimer /\ Eligible
    /\ CountEvents(events, "ws:reconnecting") = 0

(***************************************************************************)
(* C3: after a user-initiated close() the connection never calls the       *)
(* socket factory again and never has a reconnect timer pending again.     *)
(***************************************************************************)
C3_ClosedStaysClosed ==
    /\ [](closedByUser => ~reconnectTimer /\ timers = 0)
    /\ [][closedByUser => closedByUser' /\ nSock' = nSock]_vars

\* the closed socket's close event has been handled after the user's close
C3_Witness ==
    closedByUser /\ last.op = "close_event" /\ retryEnabled
        /\ reconnectAttempts < maxRetries

(***************************************************************************)
(* C4: a user-initiated close() empties the pending-send queue without     *)
(* writing it, and nothing is written to any socket afterwards, so no      *)
(* message queued at the close is ever written.                            *)
(***************************************************************************)
C4_CloseDropsQueue ==
    /\ [][(~closedByUser /\ closedByUser')
            => pendingSends' = <<>> /\ wire' = <<>>]_vars
    /\ [][closedByUser => wire' = <<>>]_vars

\* a close() that found messages in the queue
C4_Witness ==
    closedByUser /\ last.op \in {"close", "session.close"} /\ last.arg > 0

(***************************************************************************)
(* C5: send() writes at once when the connection is open and otherwise     *)
(* only enqueues; nothing is written to a socket before it opens; when a   *)
(* socket opens, the queued messages are written to it in the order they   *)
(* were sent and the queue is empty afterwards.                            *)
(***************************************************************************)
C5_NoWriteBeforeOpen == \A i \in 1..Len(wire) : wire[i].open

C5_FlushOnOpen ==
    (last'.op = "open" /\ ws # NULL)
        => /\ pendingSends' = <<>>
           /\ WireMsgs(wire') = OpenHandlerMsgs \o pendingSends
           /\ \A i \in 1..Len(wire') : wire'[i].sock = last'.arg

C5_SendOrQueue ==
    (last'.op \in AllMethods /\ connection # NULL)
        => \/ /\ Len(wire') = 1
              /\ pendingSends' = pendingSends
              /\ wire'[1].msg = CommandType(last'.op)
           \/ /\ wire' = <<>>
              /\ pendingSends' # <<>>
              /\ pendingSends'[Len(pendingSends')] = CommandType(last'.op)

C5_SendQueuesUntilOpen ==
    /\ []C5_NoWriteBeforeOpen
    /\ [][C5_SendOrQueue /\ C5_FlushOnOpen]_vars

(***************************************************************************)
(* C6: on socket open, the messages the session's ws:open handler sends    *)
(* are written before every message that was waiting in the queue (and     *)
(* nothing is written when the connection holds no socket).                *)
(***************************************************************************)
C6_HandlersBeforeQueue ==
    [][last'.op = "open"
        => IF ws = NULL THEN wire' = <<>>
           ELSE WireMsgs(wire') = OpenHandlerMsgs \o pendingSends]_vars

\* the example of the claim: no credentials, a queued generate_all
C6_Witness ==
    /\ last.op = "open" /\ ~credentials
    /\ WireMsgs(wire) = <<"get_conversation_state", "generate_all">>

(***************************************************************************)
(* C7: on every socket open the first messages written to that socket are  *)
(* session_init (if credentials are configured) then                       *)
(* get_conversation_state (unless autoRequestConversationState is false).  *)
(***************************************************************************)
C7_InitFirstOnOpen ==
    (last'.op = "open" /\ connection # NULL /\ ws # NULL)
        => /\ Len(wire') >= Len(InitMsgs)
           /\ \A i \in 1..Len(InitMsgs) :
                wire'[i].msg = InitMsgs[i] /\ wire'[i].sock = last'.arg

C7_InitMessagesFirst ==
    /\ [](\A i \in 1..Len(wire) : wire[i].open)
    /\ [][C7_InitFirstOnOpen]_vars

(***************************************************************************)
(* C8: the pending-send queue never holds more than its capacity; a send   *)
(* that finds it full drops the oldest message, keeps the others in send   *)
(* order and emits exactly one queue-overflow ws:error, which schedules no *)
(* reconnect and leaves the connection as it was.                          *)
(***************************************************************************)
C8_QueueBounded == Len(pendingSends) <= maxPendingSends

\* a handler that enqueues keeps the newest messages, in order, and emits
\* one overflow error per message dropped; no other handler emits one
C8_OverflowDropsOldest ==
    LET enq == Enqueued(last'.op)
        all == pendingSends \o enq
    IN  /\ CountInfo(events', "ws:error", "overflow")
              = Positive(Len(all) - maxPendingSends)
        /\ enq # <<>> => pendingSends' = LastN(all, maxPendingSends)

\* a send changes nothing of the connection but its queue or the wire
C8_SendNonFatal ==
    last'.op \in AllMethods
        => UNCHANGED <<ws, isOpen, closedByUser, reconnectAttempts,
                       reconnectTimer, timers, nSock, sockState,
                       connection, connState>>

C8_BoundedQueue ==
    /\ []C8_QueueBounded
    /\ [][C8_OverflowDropsOldest /\ C8_SendNonFatal]_vars

\* a send has just overflowed the queue
C8_Witness ==
    /\ last.op \in AllMethods
    /\ events = <<Ev("ws:error", "overflow", 0)>>
    /\ Len(pendingSends) = maxPendingSends

(***************************************************************************)
(* C9: every command method and every wait throws "not connected" and      *)
(* sends nothing when the session has no connection; with a connection it  *)
(* does not throw, and a command finding the connection's socket not open  *)
(* (here: absent or not yet opened) is queued.                             *)
(***************************************************************************)
C9_ThrowsWithoutConnection ==
    (last'.op \in AllMethods \cup WaitKinds)
        => IF connection = NULL
           THEN /\ last'.threw
                /\ wire' = <<>>
                /\ UNCHANGED <<pendingSends, waiters>>
           ELSE ~last'.threw

C9_QueuedWhenNotOpen ==
    (/\ last'.op \in AllMethods /\ connection # NULL
     /\ (ws = NULL \/ ws \notin opened))
        => /\ wire' = <<>>
           /\ pendingSends' # <<>>
           /\ pendingSends'[Len(pendingSends')] = CommandType(last'.op)

C9_NotConnectedOrQueued ==
    [][C9_ThrowsWithoutConnection /\ C9_QueuedWhenNotOpen]_vars

(***************************************************************************)
(* C10: a disconnect that may be retried schedules a reconnect, the timer  *)
(* calls the factory once, and the disconnect of one socket starts one     *)
(* reconnect only: when a socket's close follows its error, the close      *)
(* starts no second reconnect.                                             *)
(***************************************************************************)
C10_DisconnectSchedules ==
    (last'.op \in {"close_event", "error_event"} /\ Eligible)
        => reconnectTimer'

C10_TimerConstructsOne == last'.op = "timer" => nSock' = nSock + 1

C10_CloseAfterErrorIdle ==
    (/\ last'.op = "close_event"
     /\ sockState[last'.arg] = "closing"
     /\ ~closedByUser)
        => CountEvents(events', "ws:reconnecting") = 0

C10_OneReconnectPerDisconnect ==
    [][/\ C10_DisconnectSchedules
       /\ C10_TimerConstructsOne
       /\ C10_CloseAfterErrorIdle]_vars

(***************************************************************************)
(* C11: a reconnect is skipped once reconnectAttempts >= maxRetries, an    *)
(* open resets reconnectAttempts to 0 and the next ws:reconnecting carries *)
(* attempt 1; the timer calls the socket factory at most maxRetries times  *)
(* between two successful opens.                                           *)
(***************************************************************************)
C11_SkippedWhenExhausted ==
    (reconnectAttempts >= maxRetries /\ last'.op # "open")
        => /\ CountEvents(events', "ws:reconnecting") = 0
           /\ reconnectAttempts' = reconnectAttempts
           /\ timers' <= timers

C11_OpenResets == last'.op = "open" => reconnectAttempts' = 0

C11_AttemptNumbers ==
    \A i \in 1..Len(events') :
        events'[i].name = "ws:reconnecting"
            => /\ events'[i].n = reconnectAttempts'
               /\ reconnectAttempts' = reconnectAttempts + 1

C11_AtMostMaxRetries == created => sinceOpen <= maxRetries

C11_RetryBudget ==
    /\ []C11_AtMostMaxRetries
    /\ [][C11_SkippedWhenExhausted /\ C11_OpenResets /\ C11_AttemptNumbers]_vars

(***************************************************************************)
(* C12: with retry disabled the socket factory is called exactly once over *)
(* the connection's lifetime, no reconnect timer is ever scheduled and no  *)
(* ws:reconnecting event is ever emitted.                                  *)
(***************************************************************************)
C12_FactoryOnce ==
    (created /\ ~retryEnabled)
        => /\ nSock = 1
           /\ ~reconnectTimer /\ timers = 0
           /\ reconnectAttempts = 0
           /\ CountEvents(events, "ws:reconnecting") = 0

C12_NeverReconnects == []C12_FactoryOnce

\* the only socket of a connection with retry disabled has closed by itself
C12_Witness ==
    /\ created /\ ~retryEnabled /\ ~closedByUser
    /\ last.op = "close_event" /\ sockState[1] = "closed"

(***************************************************************************)
(* Vocabulary of the properties about messages.                            *)
(***************************************************************************)
\* the last handler was a socket's message listener
Delivered == last'.op = "message"

\* the typed message a payload stands for: the object with a string type,
\* however deep in type fields, or the state snapshot of an object shaped
\* like agent state; NoMsg for every other payload
TypedOf(raw) ==
    IF raw.shape # "object" THEN NoMsg
    ELSE IF raw.msg.type # Absent THEN raw.msg
    ELSE IF raw.stateAt # "none"
    THEN Snapshot("cf_agent_state", raw.msg.arg, raw.msg.files)
    ELSE NoMsg

\* the category event of a message type, after AgentEventMap
\* (types.ts:101-124)
Category(type) ==
    CASE type \in {"agent_connected"} -> "connected"
      [] type \in {"conversation_response", "conversation_state"} -> "conversation"
      [] type \in {"phase_generating", "phase_generated", "phase_implementing",
                   "phase_implemented", "phase_validating", "phase_validated"}
            -> "phase"
      [] type \in {"file_chunk_generated", "file_generated", "file_generating",
                   "file_regenerating", "file_regenerated"} -> "file"
      [] type \in {"generation_started", "generation_complete",
                   "generation_stopped", "generation_resumed"} -> "generation"
      [] type \in {"deployment_completed", "deployment_started",
                   "deployment_failed"} -> "preview"
      [] type \in {"cloudflare_deployment_started",
                   "cloudflare_deployment_completed",
                   "cloudflare_deployment_error"} -> "cloudflare"
      [] type \in {"error"} -> "error"
      [] OTHER -> "none"

\* the handler left the transport as it was: no socket made or closed, no
\* reconnect scheduled, nothing written or queued
TransportUnchanged ==
    /\ UNCHANGED <<ws, isOpen, closedByUser, reconnectAttempts,
                   reconnectTimer, timers, nSock, sockState, pendingSends,
                   connection>>
    /\ wire' = <<>>

(***************************************************************************)
(* C13: the connection status of the session state is connecting after     *)
(* connect() and connected after a socket opens; when a socket closes or   *)
(* reports an error while the status is connected, the status becomes      *)
(* connecting if a reconnect is pending and disconnected if none is.       *)
(***************************************************************************)
C13_ConnectAndOpen ==
    /\ (last'.op = "connect" /\ connection = NULL) => connState' = "connecting"
    /\ last'.op = "open" => connState' = "connected"

C13_Disconnect ==
    (connState = "connected" /\ last'.op \in {"close_event", "error_event"})
        => connState' = IF reconnectTimer' THEN "connecting" ELSE "disconnected"

C13_StatusMachine == [][C13_ConnectAndOpen /\ C13_Disconnect]_vars

(***************************************************************************)
(* C14: a message of a type the sdk does not know changes no field of the  *)
(* session state, throws nothing, starts no error or reconnect path, and   *)
(* is published as ws:message with no sugar event.                         *)
(***************************************************************************)
C14_UnknownIgnored ==
    [][(Delivered /\ received'.wrap = 0 /\ received'.msg.type \in UnknownTypes)
        => /\ UNCHANGED <<state, connState>>
           /\ ~last'.threw
           /\ events' = <<EvMsg("ws:message", received'.msg)>>
           /\ TransportUnchanged]_vars

\* future_feature arrived on a connection that could reconnect, with a state
\* that is not the initial one
C14_Witness ==
    /\ last.op = "message" /\ received = Json(Message("future_feature", Absent))
    /\ state # Fields(INITIAL_STATE)
    /\ Eligible /\ ~reconnectTimer

(***************************************************************************)
(* C15: a server message of type error with an error string sets lastError *)
(* to it and emits an error event with it, changes no other field of the   *)
(* session state, closes no socket, schedules no reconnect and emits no    *)
(* ws:error.                                                               *)
(***************************************************************************)
C15_ErrorIsState ==
    [][(/\ Delivered /\ received'.wrap = 0
        /\ received'.msg.type = "error" /\ received'.msg.arg # Absent)
        => /\ state' = [state EXCEPT !.lastError = received'.msg.arg]
           /\ connState' = connState
           /\ events' = <<EvMsg("ws:message", received'.msg),
                          Ev("error", received'.msg.arg, 0)>>
           /\ TransportUnchanged]_vars

\* error{boom} arrived on an open socket of a connection that could reconnect
C15_Witness ==
    /\ last.op = "message" /\ received = Json(Message("error", "boom"))
    /\ state.lastError = "boom" /\ connState = "connected"
    /\ Eligible /\ ~reconnectTimer

(***************************************************************************)
(* C16: a payload that is not JSON emits ws:error and runs the error path: *)
(* a reconnect is scheduled when the connection may reconnect (and none is *)
(* scheduled yet); no ws:message, ws:raw or sugar event is emitted, and    *)
(* the session state and the workspace stay as they were.                  *)
(***************************************************************************)
C16_ParseFailure ==
    [][(Delivered /\ received' = NotJson)
        => /\ events' =
                <<Ev("ws:error", "parse", 0)>>
                    \o (IF Eligible /\ ~reconnectTimer
                        THEN <<Ev("ws:reconnecting", "error",
                                  reconnectAttempts + 1)>>
                        ELSE <<>>)
           /\ Eligible => reconnectTimer' /\ timers' = 1
           /\ ~Eligible => UNCHANGED <<reconnectTimer, timers>>
           /\ UNCHANGED <<state, connState, workspace, waiters>>
           /\ settled' = <<>>]_vars

\* text that is not JSON has scheduled a reconnect, with files in the workspace
C16_Witness ==
    /\ last.op = "message" /\ received = NotJson
    /\ reconnectTimer /\ CountEvents(events, "ws:reconnecting") = 1
    /\ workspace # {}

(***************************************************************************)
(* C17: for every payload that is a typed message the events of the        *)
(* handler are ws:message and then the one category event of its type, if  *)
(* it has one, and nothing else; a handler runs to its end before the next *)
(* payload is handled, so a message's sugar event precedes the ws:message  *)
(* of the next.                                                            *)
(***************************************************************************)
C17_SugarEvent(m) ==
    IF Category(m.type) = "none" THEN <<>>
    ELSE IF Category(m.type) = "error"
    THEN <<Ev("error", IF m.arg # Absent THEN m.arg ELSE "Unknown error", 0)>>
    ELSE <<EvMsg(Category(m.type), m)>>

C17_MessageThenSugar ==
    [][(Delivered /\ TypedOf(received') # NoMsg)
        => events' = <<EvMsg("ws:message", TypedOf(received'))>>
                        \o C17_SugarEvent(TypedOf(received'))]_vars

\* a phase message has been published twice, ws:message first
C17_Witness ==
    /\ last.op = "message" /\ Len(events) = 2
    /\ events[1].name = "ws:message" /\ events[2].name = "phase"
    /\ events[1].msg = events[2].msg

(***************************************************************************)
(* C18: a payload with no string type that is not shaped like agent state  *)
(* is published as one ws:raw event and nothing else, and changes neither  *)
(* the session state nor the workspace.                                    *)
(***************************************************************************)
C18_RawOnly ==
    [][(/\ Delivered /\ received'.shape \in {"scalar", "object"}
        /\ received'.wrap = 0 /\ received'.msg.type = Absent
        /\ received'.stateAt = "none")
        => /\ events' = <<EvRaw(received')>>
           /\ UNCHANGED <<state, connState, workspace, waiters>>
           /\ settled' = <<>>
           /\ TransportUnchanged]_vars

\* an object without a type arrived when the workspace held files
C18_Witness ==
    /\ last.op = "message" /\ received = Raw("object", NoMsg, "none", 0)
    /\ events = <<EvRaw(received)>>
    /\ workspace # {}

(***************************************************************************)
(* C19: two state stores that are new, or one new and one after clear(),   *)
(* hold equal states after the same sequence of messages.                  *)
(***************************************************************************)
C19_SameState == replayPhase # "dirty" => get(Cur) = replay

C20_Terminal(kind) ==
    IF kind = "wait.previewDeployed"
    THEN {"deployment_completed", "deployment_failed"}
    ELSE {"cloudflare_deployment_completed", "cloudflare_deployment_error"}

C20_Settlement(kind, m) ==
    IF m.type \in {"deployment_failed", "cloudflare_deployment_error"}
    THEN [kind |-> kind, outcome |-> "rejected", msg |-> m, error |-> m.arg,
          reason |-> Absent]
    ELSE [kind |-> kind, outcome |-> "resolved", msg |-> m, error |-> Absent,
          reason |-> Absent]

C20_SettledByMessage ==
    Delivered
        => LET m == TypedOf(received')
               hit == SelectSeq(waiters, LAMBDA k : m.type \in C20_Terminal(k))
           IN  /\ settled' = [i \in 1..Len(hit) |-> C20_Settlement(hit[i], m)]
               /\ waiters' = SelectSeq(waiters,
                                       LAMBDA k : m.type \notin C20_Terminal(k))

C20_OnlyByMessage ==
    (last'.op \notin {"message", "wait.timeout"}) => settled' = <<>>

C20_DeployWaits == [][C20_SettledByMessage /\ C20_OnlyByMessage]_vars

\* deployment_failed{boom} has rejected a previewDeployed wait with boom
C20_Witness ==
    /\ last.op = "message"
    /\ settled = <<[kind |-> "wait.previewDeployed", outcome |-> "rejected",
                    msg |-> Message("deployment_failed", "boom"),
                    error |-> "boom", reason |-> Absent]>>

(***************************************************************************)
(* C21: wait.deployable of a phasic session is resolved by the first       *)
(* phase_validated message, with reason phase_validated, and not by        *)
(* generation_complete; that of a session of any other behavior type is    *)
(* resolved by the first generation_complete message, with reason          *)
(* generation_complete, and not by phase_validated.                        *)
(***************************************************************************)
C21_Resolver ==
    IF behaviorType = "phasic" THEN "phase_validated" ELSE "generation_complete"

C21_Resolved(m) ==
    [kind |-> "wait.deployable", outcome |-> "resolved", msg |-> m,
     error |-> Absent, reason |-> C21_Resolver]

C21_ByBehavior ==
    (Delivered /\ TypedOf(received') # NoMsg
        /\ \A i \in 1..Len(waiters) : waiters[i] = "wait.deployable")
        => IF TypedOf(received').type = C21_Resolver
           THEN /\ settled' = [i \in 1..Len(waiters) |->
                                C21_Resolved(TypedOf(received'))]
                /\ waiters' = <<>>
           ELSE /\ settled' = <<>>
                /\ waiters' = waiters

C21_DeployableBranches == [][C21_ByBehavior]_vars

\* generation_complete has resolved wait.deployable of a session that is
\* not phasic, after a phase_validated that did not
C21_Witness ==
    /\ behaviorType = "agentic" /\ last.op = "message"
    /\ delivered = MaxDeliveries
    /\ Len(settled) = 1 /\ settled[1].reason = "generation_complete"
    /\ state.phase.status = "validated"

(***************************************************************************)
(* C22: a wait settles once.  Its listener, its timeout timer and its      *)
(* pending promise exist together; the first message of the awaited type   *)
(* resolves it with that message and releases the listener and the timer,  *)
(* a message of another type leaves it as it is, and its timeout releases  *)
(* the listener and rejects it.  Once settled it has no listener and no    *)
(* timer left, so no later message or timer settles it again.              *)
(***************************************************************************)
C22_Listening == {waitIds[i] : i \in 1..Len(waitIds)}

\* the message type a wait of this kind is given in the model
C22_TypeOf(kind) ==
    IF kind = "waitForMessageType" THEN "deployment_completed"
    ELSE "generation_started"

C22_HeldTogether ==
    /\ Len(waitIds) = Len(waiters)
    /\ Cardinality(C22_Listening) = Len(waitIds)
    /\ C22_Listening = waitTimers
    /\ waitTimers = promises

C22_FirstMatchResolves ==
    Delivered
        => LET m == TypedOf(received')
               hit == SelectSeq(waiters, LAMBDA k : C22_TypeOf(k) = m.type)
           IN  /\ settled' = [i \in 1..Len(hit) |->
                                [kind |-> hit[i], outcome |-> "resolved",
                                 msg |-> m, error |-> Absent,
                                 reason |-> Absent]]
               /\ waiters' = SelectSeq(waiters,
                                       LAMBDA k : C22_TypeOf(k) # m.type)
               /\ Cardinality(promises') = Len(waiters')

C22_TimeoutRejects ==
    last'.op = "wait.timeout"
        => /\ last'.arg \in promises
           /\ promises' = promises \ {last'.arg}
           /\ Len(settled') = 1
           /\ settled'[1].outcome = "rejected" /\ settled'[1].error = "timeout"

C22_OncePerWait ==
    /\ Len(settled') = Cardinality(promises \ promises')
    /\ (last'.op \notin {"message", "wait.timeout"}) => settled' = <<>>

C22_SettlesOnce ==
    /\ []C22_HeldTogether
    /\ [][C22_FirstMatchResolves /\ C22_TimeoutRejects /\ C22_OncePerWait]_vars

\* deployment_completed has resolved a waitForMessageType that an earlier
\* deployment_started had left pending; nothing of the wait is left
C22_Witness ==
    /\ last.op = "message" /\ delivered = MaxDeliveries
    /\ state.preview.status = "complete"
    /\ Len(settled) = 1 /\ settled[1].kind = "waitForMessageType"
    /\ settled[1].outcome = "resolved"
    /\ waiters = <<>> /\ waitTimers = {} /\ promises = {}

(***************************************************************************)
(* C23: close() settles no wait and leaves every outstanding wait pending, *)
(* with its listener and its timer; after the close a wait is settled by   *)
(* its own timeout only, which rejects it with the timeout error.          *)
(***************************************************************************)
C23_CloseSettlesNothing ==
    last'.op \in {"close", "session.close"}
        => /\ settled' = <<>>
           /\ UNCHANGED <<waiters, waitIds, waitTimers, promises>>

C23_ThenTimeoutOnly ==
    (closedByUser /\ settled' # <<>>)
        => /\ last'.op = "wait.timeout"
           /\ \A i \in 1..Len(settled') :
                settled'[i].outcome = "rejected"
                    /\ settled'[i].error = "timeout"

C23_CloseKeepsWaitsPending ==
    [][C23_CloseSettlesNothing /\ C23_ThenTimeoutOnly]_vars

C23_CloseItself == [][C23_CloseSettlesNothing]_vars

(***************************************************************************)
(* C24: after a state snapshot that carries a files map (cf_agent_state or *)
(* agent_connected, or agent state without an envelope) the workspace is   *)
(* that map: its paths are the snapshot's paths, and no file from before   *)
(* is left that the snapshot does not have.                                *)
(***************************************************************************)
\* the files maps of the model's snapshots
C24_Map(name) ==
    CASE name = "files" -> {[path |-> "a.txt", content |-> <<"1">>]}
      [] name = "tree" -> {[path |-> "b/c.txt", content |-> <<"2">>],
                           [path |-> "b/d/e.txt", content |-> <<"3">>]}
      [] name = "empty" -> {}

C24_IsSnapshot(raw) ==
    /\ raw.shape = "object" /\ raw.msg.files # Absent
    /\ \/ raw.msg.type \in {"cf_agent_state", "agent_connected"}
       \/ raw.msg.type = Absent /\ raw.stateAt # "none"

C24_SnapshotReplaces ==
    [][(Delivered /\ C24_IsSnapshot(received'))
        => /\ workspace' = C24_Map(received'.msg.files)
           /\ \A f \in workspace :
                f.path \notin {g.path : g \in C24_Map(received'.msg.files)}
                    => f.path \notin {g.path : g \in workspace'}]_vars

\* agent state without an envelope has replaced a workspace that held
\* b/c.txt by the map of a.txt
C24_Witness ==
    /\ last.op = "message"
    /\ received = Raw("object", Snapshot(Absent, Absent, "files"), "nested", 0)
    /\ {f.path : f \in workspaceWas} = {"b/c.txt"}
    /\ {f.path : f \in workspace} = {"a.txt"}

(***************************************************************************)
(* C25: file_generated and file_regenerated set the file at the message's  *)
(* path and leave every other file, path and content, as it was; the       *)
(* paths of the workspace stay unique keys.  After the snapshot of a.txt   *)
(* and an update of b/c.txt the paths are a.txt and b/c.txt.               *)
(***************************************************************************)
\* the key of the path a message names
C25_Key(path) == IF path = "/a.txt" THEN "a.txt" ELSE path

C25_UniqueKeys ==
    \A f, g \in workspace : f.path = g.path => f = g

C25_UpsertsOne ==
    (/\ Delivered /\ received'.wrap = 0
     /\ received'.msg.type \in {"file_generated", "file_regenerated"})
        => LET key == C25_Key(received'.msg.arg)
           IN  /\ {f \in workspace' : f.path # key}
                    = {f \in workspace : f.path # key}
               /\ {f \in workspace' : f.path = key}
                    = {[path |-> key, content |-> <<received'.msg.type>>]}

C25_IncrementalUpsert == []C25_UniqueKeys /\ [][C25_UpsertsOne]_vars

\* the example of the claim
C25_Witness ==
    /\ last.op = "message"
    /\ received = Json(Message("file_generated", "b/c.txt"))
    /\ workspaceWas = {[path |-> "a.txt", content |-> <<"1">>]}
    /\ {f.path : f \in workspace} = {"a.txt", "b/c.txt"}

(***************************************************************************)
(* C26: the tree files.tree() returns holds, at every level, the           *)
(* directories before the files, each group in the lexicographic order of  *)
(* the names; every path of the workspace is the path of exactly one file  *)
(* node, there is no other file node, and every directory has a file below *)
(* it.  For the paths a.txt and b/c.txt the tree is the directory b, which *)
(* holds the file c.txt, followed by the file a.txt.                       *)
(***************************************************************************)
\* the names of the model in lexicographic order
C26_Names == <<"a.txt", "b", "c.txt", "d", "e.txt">>

C26_Place(name) == CHOOSE i \in 1..Len(C26_Names) : C26_Names[i] = name

\* directories first, and each group in the order of the names
C26_Ordered(nodes) ==
    \A i, j \in 1..Len(nodes) :
        i < j => /\ nodes[i].type = "file" => nodes[j].type = "file"
                 /\ nodes[i].type = nodes[j].type
                        => C26_Place(nodes[i].name) <= C26_Place(nodes[j].name)

RECURSIVE C26_OrderedAll(_)
C26_OrderedAll(nodes) ==
    /\ C26_Ordered(nodes)
    /\ \A i \in 1..Len(nodes) :
            nodes[i].type = "dir" => C26_OrderedAll(nodes[i].children)

\* the paths of the file nodes, one entry for each node
RECURSIVE C26_FilePaths(_)
C26_FilePaths(nodes) ==
    IF nodes = <<>> THEN <<>>
    ELSE (IF Head(nodes).type = "file" THEN <<Head(nodes).path>>
          ELSE C26_FilePaths(Head(nodes).children))
            \o C26_FilePaths(Tail(nodes))

RECURSIVE C26_NoEmptyDir(_)
C26_NoEmptyDir(nodes) ==
    \A i \in 1..Len(nodes) :
        nodes[i].type = "dir"
            => /\ C26_FilePaths(nodes[i].children) # <<>>
               /\ C26_NoEmptyDir(nodes[i].children)

C26_Example ==
    <<[type |-> "dir", name |-> "b", path |-> "b",
       children |-> <<[type |-> "file", name |-> "c.txt", path |-> "b/c.txt"]>>],
      [type |-> "file", name |-> "a.txt", path |-> "a.txt"]>>

C26_TreeOfWorkspace ==
    LET listed == C26_FilePaths(tree)
        keys == {f.path : f \in workspace}
    IN  /\ C26_OrderedAll(tree)
        /\ {listed[i] : i \in 1..Len(listed)} = keys
        /\ Len(listed) = Cardinality(keys)
        /\ C26_NoEmptyDir(tree)
        /\ keys = {"a.txt", "b/c.txt"} => tree = C26_Example

C27_Counts ==
    (Delivered /\ received'.msg.type = "file_generated")
        => /\ connState' = connState
           /\ IF state.generation.status \in {"running", "stopped"}
              THEN /\ state'.generation.filesGenerated
                        = state.generation.filesGenerated + 1
                   /\ state'.currentFile = Absent
                   /\ state' = [state EXCEPT
                                    !.generation.filesGenerated
                                        = state'.generation.filesGenerated,
                                    !.currentFile = Absent]
              ELSE /\ state.generation.status \in {"idle", "complete"}
                   /\ state' = state

C28_Restarts ==
    (Delivered /\ received'.msg.type = "generation_started")
        => /\ connState' = connState
           /\ state' = [state EXCEPT
                            !.generation = [status |-> "running",
                                            totalFiles |-> received'.msg.arg,
                                            filesGenerated |-> 0],
                            !.currentFile = Absent]

C28_GenerationStarted == [][C28_Restarts]_vars

\* generation_started has restarted a generation that had counted files,
\* in a session that had seen an error, a phase and both deployments
C28_Witness ==
    /\ last.op = "message"
    /\ received = Json(Message("generation_started", "3"))
    /\ workspace # {} /\ state.generation.filesGenerated = 0
    /\ state.lastError = "boom" /\ state.previewUrl = "https://y"
    /\ state.phase.status = "generating"
    /\ state.preview.status = "running" /\ state.cloudflare.status = "running"

(***************************************************************************)
(* C29: generation_complete gives a complete generation with the message's *)
(* previewURL and the count of files of the generation state before (0     *)
(* when that was idle); previewUrl becomes the message's previewURL when   *)
(* there is one and stays as it was when there is none.                    *)
(***************************************************************************)
C29_Count(generation) ==
    IF generation.status = "idle" THEN 0 ELSE generation.filesGenerated

C29_Completes ==
    (Delivered /\ received'.msg.type = "generation_complete")
        => /\ state'.generation =
                [status |-> "complete", previewURL |-> received'.msg.arg,
                 filesGenerated |-> C29_Count(state.generation)]
           /\ state'.previewUrl =
                IF received'.msg.arg # Absent THEN received'.msg.arg
                ELSE state.previewUrl

C29_GenerationComplete == [][C29_Completes]_vars

\* generation_complete has carried the count of a stopped generation over
\* and replaced the preview url the session had
C29_Witness ==
    /\ last.op = "message"
    /\ received = Json(Message("generation_complete", "https://x"))
    /\ state.generation.filesGenerated = MaxFiles
    /\ state.previewUrl = "https://x"
    /\ state.lastError = "boom"

(***************************************************************************)
(* C30 as stated: phase changes only when a phase_* message is delivered,  *)
(* and then to the status its type names; preview only on                  *)
(* deployment_started, _failed and _completed; cloudflare only on          *)
(* cloudflare_deployment_started, _error and _completed; generation only   *)
(* on generation_* and file_generated; the connection state only in        *)
(* connect() and on a socket's open and close events.  A file_generating   *)
(* message sets currentFile to its path and leaves every other field, the  *)
(* generation's count included, as it was.                                 *)
(***************************************************************************)
C30_Status(type) ==
    CASE type = "phase_generating" -> "generating"
      [] type = "phase_generated" -> "generated"
      [] type = "phase_implementing" -> "implementing"
      [] type = "phase_implemented" -> "implemented"
      [] type = "phase_validating" -> "validating"
      [] type = "phase_validated" -> "validated"
      [] OTHER -> Absent

C30_Edges(field) ==
    CASE field = "phase" ->
            {"phase_generating", "phase_generated", "phase_implementing",
             "phase_implemented", "phase_validating", "phase_validated"}
      [] field = "preview" ->
            {"deployment_started", "deployment_failed",
             "deployment_completed"}
      [] field = "cloudflare" ->
            {"cloudflare_deployment_started", "cloudflare_deployment_error",
             "cloudflare_deployment_completed"}
      [] field = "generation" ->
            {"generation_started", "generation_complete",
             "generation_stopped", "generation_resumed", "file_generated"}

\* the sub-machine named field has changed in a step that delivered one of
\* its own messages, or has not changed
C30_OwnEdge(field) ==
    state'[field] # state[field]
        => Delivered /\ TypedOf(received').type \in C30_Edges(field)

C30_OwnEdges ==
    /\ \A field \in {"phase", "preview", "cloudflare", "generation"} :
            C30_OwnEdge(field)
    /\ state'.phase # state.phase
            => state'.phase.status = C30_Status(TypedOf(received').type)
    /\ connState' # connState
            => last'.op \in {"connect", "open", "close_event"}

C30_FileGenerating ==
    (Delivered /\ TypedOf(received').type = "file_generating")
        => /\ state' = [state EXCEPT !.currentFile = TypedOf(received').arg]
           /\ connState' = connState

C30_OnlyOwnEdges == [][C30_OwnEdges /\ C30_FileGenerating]_vars

(***************************************************************************)
(* C30 as amended: the same, in every step but session.close(), which      *)
(* puts the whole session state back to its initial value.                 *)
(***************************************************************************)
C30_CloseResets ==
    /\ connState' = INITIAL_STATE.connection
    /\ state' = Fields(INITIAL_STATE)

C30_Frame ==
    [][/\ C30_FileGenerating
       /\ IF last'.op = "session.close" THEN C30_CloseResets
          ELSE C30_OwnEdges]_vars

\* file_generating has named the file of a running generation, whose state
\* is otherwise what generation_started left
C30_Witness ==
    /\ last.op = "message"
    /\ TypedOf(received).type = "file_generating"
    /\ state.currentFile = TypedOf(received).arg
    /\ state.currentFile # Absent
    /\ state.generation.status = "running"
    /\ state.generation.filesGenerated = 0
    /\ connState = "connected"

(***************************************************************************)
(* C31 as stated: every handler that calls applyWsMessage (a typed message *)
(* was delivered) or setConnection (connect() without a connection, a      *)
(* socket's open or close event) leaves the store holding a new object and *)
(* emits exactly one change event, whose prev is the object held before    *)
(* the handler and whose next is the object get() returns after it; no     *)
(* handler writes to an object that was the state before.                  *)
(***************************************************************************)
C31_AppliesMessage == Delivered /\ TypedOf(received').type # Absent

C31_SetsConnection ==
    \/ last'.op = "connect" /\ connection = NULL
    \/ last'.op \in {"open", "close_event"}

C31_OneChange ==
    /\ changes' = <<[prev |-> 0, next |-> 1]>>
    /\ stateRef' = 1

C31_NeverWritten == written' = {}

C31_EveryCallChanges ==
    [][/\ C31_NeverWritten
       /\ (C31_AppliesMessage \/ C31_SetsConnection) => C31_OneChange]_vars

(***************************************************************************)
(* C31 as amended: the same for every setConnection call and for every     *)
(* applyWsMessage call that sets a field.  A message that sets none (a     *)
(* type the store does not name, file_generated outside a running or       *)
(* stopped generation, agent_connected without a preview url) leaves the   *)
(* store holding the same object, equal to what it was, and no change      *)
(* event is emitted; no other handler emits one.                           *)
(***************************************************************************)
C31_Named ==
    {"conversation_state", "conversation_response", "generation_started",
     "generation_complete", "generation_stopped", "generation_resumed",
     "file_generating", "file_generated", "phase_generating",
     "phase_generated", "phase_implementing", "phase_implemented",
     "phase_validating", "phase_validated", "deployment_started",
     "deployment_failed", "deployment_completed",
     "cloudflare_deployment_started", "cloudflare_deployment_error",
     "cloudflare_deployment_completed", "agent_connected", "error"}

C31_SetsField ==
    LET m == TypedOf(received')
    IN  /\ Delivered
        /\ m.type \in C31_Named
        /\ m.type = "file_generated"
                => state.generation.status \in {"running", "stopped"}
        /\ m.type = "agent_connected" => m.arg # Absent

C31_NoChange ==
    /\ changes' = <<>>
    /\ stateRef' \in {0, InitialRef}
    /\ stateRef' = 0 => state' = state /\ connState' = connState
    /\ stateRef' = InitialRef => last'.op = "session.close"

C31_ChangePerReduction ==
    [][/\ C31_NeverWritten
       /\ IF C31_SetsField \/ C31_SetsConnection THEN C31_OneChange
          ELSE C31_NoChange]_vars

\* a second error message with the text of the first has given the store a
\* new object equal to the one it held
C31_Witness ==
    /\ last.op = "message"
    /\ received = Json(Message("error", "boom"))
    /\ delivered = MaxDeliveries
    /\ changes = <<[prev |-> 0, next |-> 1]>>
    /\ stateRef = 1
    /\ state = [Fields(INITIAL_STATE) EXCEPT !.lastError = "boom"]

(***************************************************************************)
(* C32: once close() has run on the connection, no handler writes to any   *)
(* socket: not a send(), not the open event of the socket that was closed, *)
(* not a reconnect timer scheduled before.                                 *)
(***************************************************************************)
C32_NoWriteAfterClose == [][closedByUser => wire' = <<>>]_vars

\* the socket closed while connecting has reported open after a send()
\* that followed the close: the message is still queued and nothing was
\* written
C32_Witness ==
    /\ closedByUser
    /\ connection # NULL
    /\ last.op = "open"
    /\ isOpen
    /\ pendingSends # <<>>
    /\ wire = <<>>

(***************************************************************************)
(* C33: from session.close() on, and for as long as connect() has not been *)
(* called again, the session state is the initial state, the workspace is  *)
(* empty and isConnected() is false, whatever the socket of the closed     *)
(* connection still reports.                                               *)
(***************************************************************************)
\* close() has run and connect() has not run since; isConnected() is
\* connection !== null (session.ts:121-123)
C33_Closed == created /\ connection = NULL

C33_Initial ==
    /\ connState = "disconnected"
    /\ state.generation = [status |-> "idle"]
    /\ state.phase = [status |-> "idle"]
    /\ state.preview = [status |-> "idle"]
    /\ state.cloudflare = [status |-> "idle"]
    /\ state.currentFile = Absent
    /\ state.previewUrl = Absent
    /\ state.lastError = Absent
    /\ workspace = {}

C33_ClosedStaysInitial == C33_Closed => C33_Initial

\* what holds: close() itself leaves the session initial
C33_CloseItself ==
    [][last'.op = "session.close" => connection' = NULL /\ C33_Initial']_vars

(***************************************************************************)
(* C34: while the caller has not closed the connection, a message given to *)
(* send() when the connection's socket is not open is put at the end of    *)
(* the queue and not written; the queue changes in no other way until a    *)
(* socket opens; and the next open writes the whole queue once, in order,  *)
(* to the socket that opened, after the open handler's own messages, and   *)
(* leaves it empty, so that no message is written a second time by a later *)
(* open.  (On overflow the oldest message leaves the queue.)               *)
(***************************************************************************)
\* the connection's socket has reported open and has not reported close
C34_SocketOpen ==
    ws # NULL /\ ws \in opened /\ sockState[ws] \in {"open", "closing"}

C34_Sends == last'.op \in AllMethods /\ connection # NULL

C34_Queued ==
    (C34_Sends /\ ~C34_SocketOpen)
        => /\ wire' = <<>>
           /\ pendingSends' = LastN(Append(pendingSends, CommandType(last'.op)),
                                    maxPendingSends)

C34_WrittenAtOnce ==
    (C34_Sends /\ C34_SocketOpen)
        => /\ WireMsgs(wire') = <<CommandType(last'.op)>>
           /\ wire'[1].sock = ws
           /\ pendingSends' = pendingSends

C34_FlushedOnOpen ==
    last'.op = "open"
        => /\ WireMsgs(wire') = OpenHandlerMsgs \o pendingSends
           /\ \A i \in 1..Len(wire') : wire'[i].sock = last'.arg
           /\ pendingSends' = <<>>

C34_QueueKept ==
    (~C34_Sends /\ last'.op # "open")
        => wire' = <<>> /\ pendingSends' = pendingSends

C34_QueuedWrittenOnce ==
    [][(~closedByUser /\ ~closedByUser')
        => /\ C34_Queued
           /\ C34_WrittenAtOnce
           /\ C34_FlushedOnOpen
           /\ C34_QueueKept]_vars

(***************************************************************************)
(* C35: every payload a socket delivers makes the connection emit exactly  *)
(* one of ws:message, ws:raw and ws:error, exactly once: ws:error for text *)
(* that is not JSON, ws:message for a payload that stands for a typed      *)
(* message (also when it is encoded in a type field), ws:raw for every     *)
(* other payload (also when it is encoded in a type field).                *)
(***************************************************************************)
C35_Outcomes == {"ws:message", "ws:raw", "ws:error"}

C35_Emitted(kind) == CountEvents(events', kind)

C35_Outcome(raw) ==
    IF raw.shape = "not_json" THEN "ws:error"
    ELSE IF TypedOf(raw).type # Absent THEN "ws:message"
    ELSE "ws:raw"

C35_One ==
    Delivered
        => \A kind \in C35_Outcomes :
                C35_Emitted(kind) =
                    IF kind = C35_Outcome(received') THEN 1 ELSE 0

C35_OneOutcome == [][C35_One]_vars

\* what holds: exactly one outcome for every payload that is not an
\* unclassified object encoded in a type field
C35_OneUnlessWrappedRaw ==
    [][(received'.wrap = 0 \/ C35_Outcome(received') # "ws:raw")
            => C35_One]_vars

(***************************************************************************)
(* C36: when a message is delivered, every listener of the state store's   *)
(* change event is shown the workspace as the message leaves it, and every *)
(* wait the message resolves is shown, after that, the session state and   *)
(* the workspace as the message leaves them: a file_generated message's    *)
(* file is in that workspace and counted in that state, and a              *)
(* generation_started message's generation is running there.               *)
(***************************************************************************)
C36_Reflects(obs, m) ==
    /\ m.type = "file_generated"
            => /\ \E f \in obs.workspace : f.path = m.arg
               /\ state.generation.status \in {"running", "stopped"}
                    => obs.state.generation.filesGenerated
                            = state.generation.filesGenerated + 1
    /\ m.type = "generation_started"
            => obs.state.generation.status = "running"

C36_Shown ==
    Delivered
        => LET m == TypedOf(received')
               waits == {i \in 1..Len(seen') : seen'[i].by = "wait"}
           IN  /\ Cardinality(waits) = Len(settled')
               /\ \A i \in 1..Len(seen') :
                    /\ seen'[i].workspace = workspace'
                    /\ C36_Reflects(seen'[i], m)
                    /\ i \in waits
                        => /\ seen'[i].state.connection = connState'
                           /\ Fields(seen'[i].state) = state'
                           /\ \A j \in 1..Len(seen') : j > i => j \in waits

C36_UpdatedBeforeResolved == [][C36_Shown]_vars

\* file_generated has resolved a wait for it in a running generation, after
\* a change event: both were shown the file in the workspace
C36_Witness ==
    /\ last.op = "message"
    /\ received = Json(Message("file_generated", "b/c.txt"))
    /\ Len(settled) = 1 /\ settled[1].outcome = "resolved"
    /\ Len(seen) = 2
    /\ seen[1].by = "change" /\ seen[2].by = "wait"
    /\ seen[2].state.generation.filesGenerated = 1
    /\ \E f \in seen[1].workspace : f.path = "b/c.txt"

(***************************************************************************)
(* C37: a socket's open, close and error events and the reconnect timer    *)
(* leave every wait as it is (listener, timer and promise), and a message  *)
(* is published and resolves the waits that await its type whichever       *)
(* socket delivers it: a wait registered on the first socket is resolved   *)
(* by the message the reconnected socket delivers.                         *)
(***************************************************************************)
C37_Awaited(kind) ==
    IF kind = "wait.generationComplete" THEN {"generation_complete"}
    ELSE {"deployment_completed", "deployment_failed"}

C37_KeptAcrossSockets ==
    last'.op \in {"open", "close_event", "error_event", "timer"}
        => /\ UNCHANGED <<waiters, waitIds, waitTimers, promises>>
           /\ settled' = <<>>

C37_ResolvedOnAnySocket ==
    Delivered
        => LET m == TypedOf(received')
               hit == SelectSeq(waiters, LAMBDA k : m.type \in C37_Awaited(k))
           IN  /\ m.type # Absent => events'[1] = EvMsg("ws:message", m)
               /\ settled' = [i \in 1..Len(hit) |->
                                [kind |-> hit[i], outcome |-> "resolved",
                                 msg |-> m, error |-> Absent,
                                 reason |-> Absent]]
               /\ waiters' = SelectSeq(waiters,
                                       LAMBDA k : m.type \notin C37_Awaited(k))

C37_WaitsOutliveSockets ==
    [][C37_KeptAcrossSockets /\ C37_ResolvedOnAnySocket]_vars

\* the second socket has delivered generation_complete after the first had
\* closed, and the message has resolved the wait registered on the first
C37_Witness ==
    /\ last.op = "message" /\ last.arg = 2
    /\ sockState[1] = "closed" /\ sockState[2] = "open"
    /\ received = Json(Message("generation_complete", "https://x"))
    /\ Len(settled) = 1
    /\ settled[1].kind = "wait.generationComplete"
    /\ settled[1].outcome = "resolved"
    /\ promises = {}

(***************************************************************************)
(* C38: the count of generated files (0 while the generation is idle)      *)
(* goes down only to 0, and only when generation_started is delivered or   *)
(* the session is closed; generation_stopped, generation_resumed and       *)
(* generation_complete leave it as it is; it goes up only by 1, and only   *)
(* when file_generated is delivered in a running or stopped generation.    *)
(***************************************************************************)
C38_Count(generation) ==
    IF generation.status = "idle" THEN 0 ELSE generation.filesGenerated

C38_Step ==
    LET before == C38_Count(state.generation)
        after == C38_Count(state'.generation)
        type == IF Delivered THEN TypedOf(received').type ELSE Absent
    IN  /\ after < before
            => /\ after = 0
               /\ type = "generation_started" \/ last'.op = "session.close"
        /\ type \in {"generation_stopped", "generation_resumed",
                     "generation_complete"}
            => after = before
        /\ after > before
            => /\ after = before + 1
               /\ type = "file_generated"
               /\ state.generation.status \in {"running", "stopped"}

C38_CountMonotone == [][C38_Step]_vars

\* generation_resumed has left a generation that had counted MaxFiles
\* files running with the same count
C38_Witness ==
    /\ last.op = "message"
    /\ received = Json(Message("generation_resumed", Absent))
    /\ state.generation = [status |-> "running", filesGenerated |-> MaxFiles]

(***************************************************************************)
(* C39: connect() is idempotent while the session has a connection: a      *)
(* second call returns the connection the session has, constructs no       *)
(* socket, registers no listener, keeps the options of the first call and  *)
(* leaves the connection status as it is (it is not set back to            *)
(* connecting); so every open still writes session_init /                  *)
(* get_conversation_state once, and then the queued messages.              *)
(***************************************************************************)
\* what a call of connect() could touch
C39_Touched ==
    <<connection, connState, listeners, created, credentials, autoRequest,
      retryEnabled, maxRetries, ws, isOpen, closedByUser, reconnectAttempts,
      reconnectTimer, pendingSends, timers, nSock, sockState, opened,
      waiters, waitTimers, promises, state, workspace>>

\* connect() is called on a session that has a connection
C39_SecondCall == connection # NULL /\ last'.op = "connect"

C39_NoEffect ==
    /\ UNCHANGED C39_Touched
    /\ wire' = <<>>
    /\ events' = <<>>
    /\ changes' = <<>>
    /\ ~last'.threw

\* the socket the connection holds reports open
C39_Opens == connection # NULL /\ last'.op = "open" /\ ws # NULL

C39_ConnectIdempotent ==
    [][/\ C39_SecondCall => C39_NoEffect
       /\ C39_Opens => WireMsgs(wire') = InitMsgs \o pendingSends]_vars

\* connect() has been called on a session whose connection is open, with
\* both messages of the open handler configured
C39_Witness ==
    /\ last.op = "connect"
    /\ connState = "connected"
    /\ credentials /\ autoRequest
    /\ nSock = 1
    /\ listeners = 1

\* a socket has opened after connect() was called a second time
C39_WitnessOpen ==
    /\ last.op = "open"
    /\ nSock = 2
    /\ credentials /\ autoRequest
    /\ Len(wire) = 2

====
